---- MODULE Spec2Model ----
(***************************************************************************)
(* Drone/rover ground control: the coordination service (its loop threads  *)
(* and the API context that starts, stops and initiates surveys) and the   *)
(* vehicle link (mission upload handshake, telemetry listener, waypoint    *)
(* visit tracking).                                                        *)
(*                                                                         *)
(* Spec      the coordination service: CoordinationService, with the drone *)
(*           and the rover seen through the calls the service makes.       *)
(* OneLoopSpec  the same service when no join of stop() times out, with    *)
(*           the calls of start() and stop() that do nothing.              *)
(* FairLoopSpec  the loop threads with start() and stop(), every thread    *)
(*           running on.                                                   *)
(* LinkSpec  one vehicle link: Vehicle.upload_mission and the mission      *)
(*           progress state kept by the listener and the API routes.       *)
(* CmdSpec   one vehicle link: its connection, its worker threads and the  *)
(*           commands that wait on the telemetry snapshot.                 *)
(* SurveySpec  the survey service called on its own: resume_survey and   *)
(*           the two survey executions.                                    *)
(* GenSpec   one call of a waypoint generator of the survey service.       *)
(* PushSpec  the telemetry push thread of a link.                          *)
(* RefetchSpec  a connected link message by message: its listener and      *)
(*           Vehicle.upload_mission with the fetch it ends with.           *)
(* FairUploadSpec  the same, the caller of upload_mission running on.      *)
(***************************************************************************)
EXTENDS Integers, Sequences, FiniteSets, TLC

(***************************************************************************)
(* Program constants                                                       *)
(***************************************************************************)
MAX_FOLLOW_DISTANCE == 500
PROXIMITY_THRESHOLD == 5
PROXIMITY_CHECK_COOLDOWN == 2
LOOP_INTERVAL == 2

\* Vehicle.waypoint_visit_threshold (metres) and
\* Vehicle.waypoint_confirmation_delay (seconds)
WAYPOINT_VISIT_THRESHOLD == 3
WAYPOINT_CONFIRMATION_DELAY == 2

\* Loop threads that can exist at once: start() creates a new thread whenever
\* is_active is false, whether or not an earlier thread has exited.
MaxThreads == 2
Threads == 1..MaxThreads

\* The longest mission uploaded, in waypoints.
MaxWp == 2

\* Distances (metres) _calculate_distance can return for two known
\* positions (0 for the drone straight above the rover), and -1 for a
\* missing latitude.
Dists == {0, 3, 100, 600}

\* Commands the loop sends to the drone that make it follow the rover.
FollowCmds == {"arm", "set_mode_guided", "takeoff", "goto"}

\* Distances (metres) from the vehicle to the waypoint nearest to it.
WpDists == {2, 3, 4}

VARIABLES
    \* ---- CoordinationService fields
    is_active, is_following, survey_mode_detected, last_survey_mode_state,
    survey_button_enabled, survey_initiated_by_user, stop_event,
    proxAge,            \* min(time.time() - _last_proximity_check, cooldown)
    curThread,          \* self._thread: the loop thread start() created last
    \* ---- SurveyService field
    survey_abandoned,
    \* ---- one loop thread's position and locals
    pc, is_surveying, distance, branch, seqOk,
    tickSent,           \* this thread sent a follow command in its tick
    resume,             \* "trying" from the decision to abandon a survey,
                        \* "pending" from the end of that tick, following
                        \* engaged, until the decision of the thread's next
                        \* tick that is not skipped; "none" otherwise, and
                        \* once a survey was initiated in between
    evaluated,          \* where it is recorded: the is_surveying of the
                        \* tick before the one in progress, false before
                        \* the first tick
    \* ---- the API context (one asyncio event loop: one handler at a time)
    apiPc,
    \* ---- what the step just taken put out
    sent,               \* commands sent to the drone
    emitted,            \* events broadcast to the clients, and the line a
                        \* start() or stop() that does nothing prints
    \* ---- the drone
    surveyRunning,      \* the drone flies the uploaded survey mission in AUTO
    \* ---- Vehicle fields
    survey_mission_complete, last_waypoint_seq,
    mission_waypoints,  \* the keys of self.mission_waypoints
    visited_waypoints, current_waypoint_seq,
    waypoint_visit_candidates,  \* _waypoint_visit_candidates: for each key
                        \* the age in seconds of its timer (time.time() less
                        \* the start stored, capped at the delay), None for
                        \* a key the dict does not hold
    strayed,            \* the keys with a timer since whose start a position
                        \* update came from outside the visit threshold
    \* ---- the autopilot
    vehicleMission,     \* the number of items of the mission it holds
    \* ---- an upload in progress
    upPc, upImpl,
    upN,                \* the number of waypoints to upload
    upIdx,              \* the index i of the item the upload waits to send
    upSent,             \* the indices of the items sent, in order
    upResult,           \* what the last upload returned: "ok", "fail"
    lastReq,            \* the index of the last MISSION_REQUEST received
    upWrong,            \* a request for another index than upIdx arrived
    upAcked,            \* the final MISSION_ACK arrived, accepting
    pre,                \* the mission state when the upload was called
    reachedSinceUpload, \* since upload_mission last reset the completion
                        \* flag, a MISSION_ITEM_REACHED reached the recorded
                        \* last_waypoint_seq
    \* ---- a fetch_mission_waypoints in progress
    fetchPc,
    \* ---- the connection of a link and its worker threads
    vehicle,            \* self.vehicle: "none" or the "open" transport
    stop_threads,       \* the Event _stop_threads is set
    listeners,          \* the _message_listener_loop threads alive
    heartbeats,         \* the _heartbeat_loop threads alive
    lock,               \* _lock: "free", or "listener" while one of the
                        \* listener threads is inside `with self._lock`
    last_telemetry,     \* custom_mode, the custom-mode-enabled bit of
                        \* flight_mode, armed
    \* ---- the context that calls the link (one call at a time)
    op,                 \* the call in progress, "idle" if none
    opPc,               \* its position
    smPc,               \* the position of set_mode, called or nested
    want,               \* the mode set_mode was asked for
    elapsed,            \* time.time() - start_time of the wait in progress
    out,                \* what the step just taken sent, printed, returned
    touch,              \* how the step just taken accessed the snapshot or
                        \* the mission-progress fields: "locked" inside
                        \* `with self._lock`, "bare" outside, "none"
    armSaw,             \* the custom_mode arm() last saw in the snapshot,
                        \* read by itself or by the set_mode it called
    armSent,            \* this arm() sent the arm command
    switches,           \* the set-mode commands this arm() sent
    \* ---- the survey service (services/survey_service.py), one call at a
    \* ---- time
    svcCall,            \* the call in progress or, with svcPc "idle", the
                        \* last one: "resume", "lawnmower", "proximity"
    svcPc,              \* the position of the call in progress, "idle" if
                        \* none
    position_data,      \* resume_survey's local: what drone.position()
                        \* returned at line 116
    svcCalls,           \* the methods of the drone the call has called so
                        \* far, in order
    svcResult,          \* how the last call ended: what it returned or the
                        \* exception it raised, "none" while one runs
    is_paused,          \* SurveyService.is_paused
    survey_in_progress, \* SurveyService.survey_in_progress
    \* ---- the waypoint generators of the survey service
    genIn,              \* the arguments and the configuration of the call
    genPc,              \* "ready" before the call, "done" after it
    genOut,             \* scan_waypoints, the list the call returned
    \* ---- the telemetry push thread of a link (lines 1009-1055)
    clock,              \* time.time(), in seconds
    heartbeat_timestamp,\* last_telemetry["heartbeat_timestamp"]
    callbacks,          \* VehicleService.telemetry_callbacks holds a
                        \* callback for the link
    telemetry_callback, \* _telemetry_callback is set
    pushPc,             \* the position of the _telemetry_loop thread,
                        \* "none" while there is no such thread
    telemetry,          \* its local: the heartbeat_timestamp of the copy
                        \* it took of the snapshot
    forwarded,          \* the step just taken called the callback with
                        \* that copy
    \* ---- the listener's visit check against a fetch (lines 302-347,
    \* ---- 907-950)
    iterating,          \* the iterator of line 917 while the listener is
                        \* in its loop: the size the dict had when it was
                        \* made, the items it has still to give, and
                        \* whether self.mission_waypoints has been bound to
                        \* another dict since
    fetchIdx,           \* i of the loop of line 322
    wire                \* the handshake message the autopilot has sent and
                        \* no recv_match has returned yet

coordVars == <<is_active, is_following, survey_mode_detected,
               last_survey_mode_state, survey_button_enabled,
               survey_initiated_by_user, stop_event, proxAge, curThread,
               survey_abandoned, pc, is_surveying, distance, branch, seqOk,
               tickSent, resume, evaluated, apiPc, sent, emitted,
               surveyRunning>>

\* The visit timers of a link.
visitTimers == <<waypoint_visit_candidates, strayed>>

\* The connection of a link, its worker threads and its caller.
cmdVars == <<vehicle, stop_threads, listeners, heartbeats, lock,
             last_telemetry, op, opPc, smPc, want, elapsed, out, touch,
             armSaw, armSent, switches>>

\* The survey service called on its own, the waypoint generators and the
\* telemetry push thread.
surveyVars == <<svcCall, svcPc, position_data, svcCalls, svcResult, is_paused,
                survey_in_progress>>

genVars == <<genIn, genPc, genOut>>

pushVars == <<clock, heartbeat_timestamp, callbacks, telemetry_callback,
              pushPc, telemetry, forwarded>>

refetchVars == <<iterating, fetchIdx, wire>>

sideVars == <<surveyVars, genVars, pushVars, refetchVars>>

\* The vehicle link, the completion flag and last_waypoint_seq apart.
linkVars == <<mission_waypoints, visited_waypoints, current_waypoint_seq,
              visitTimers, vehicleMission, upPc, upImpl, upN,
              upIdx, upSent, upResult, lastReq, upWrong, upAcked, pre,
              fetchPc, cmdVars>>

\* The fields and locals a loop thread's tick can write.
tickVars == <<is_following, survey_mode_detected, last_survey_mode_state,
              survey_button_enabled, survey_initiated_by_user, proxAge,
              survey_abandoned, is_surveying, distance, branch, seqOk,
              tickSent, surveyRunning>>

\* The fields the API context writes besides the ones a tick writes.
ctlVars == <<is_active, stop_event, curThread, apiPc>>

Min(a, b) == IF a < b THEN a ELSE b

(***************************************************************************)
(* CoordinationService.__init__ (lines 27-54)                               *)
(***************************************************************************)
CoordInit ==
    /\ is_active = FALSE
    /\ is_following = FALSE
    /\ survey_mode_detected = FALSE
    /\ last_survey_mode_state = FALSE
    /\ survey_button_enabled = FALSE
    /\ survey_initiated_by_user = FALSE
    /\ stop_event = FALSE
    /\ proxAge = PROXIMITY_CHECK_COOLDOWN
    /\ curThread = 0
    /\ survey_abandoned = FALSE
    /\ pc = [t \in Threads |-> "idle"]
    /\ is_surveying = [t \in Threads |-> FALSE]
    /\ distance = [t \in Threads |-> -1]
    /\ branch = [t \in Threads |-> "none"]
    /\ seqOk = [t \in Threads |-> FALSE]
    /\ tickSent = [t \in Threads |-> FALSE]
    /\ resume = [t \in Threads |-> "none"]
    /\ evaluated = FALSE
    /\ apiPc = "idle"
    /\ sent = {}
    /\ emitted = {}
    /\ surveyRunning = FALSE

(***************************************************************************)
(* The coordination loop, one action per stretch of _coordination_loop      *)
(* between two points where another context can change what it reads.  What *)
(* a step reads from the vehicles (connected, distance, armed, command      *)
(* results) is its input.                                                   *)
(***************************************************************************)
\* The ghost "resume" after a step of thread t that leaves t's own value at
\* v.
Resume(t, v) == resume' = [resume EXCEPT ![t] = v]

\* What a step puts out: the commands c and the events e.
Out(c, e) == sent' = c /\ emitted' = e

\* Faulty variant: a survey counts as active whatever the user flag says.
IsDroneSurveyingIgnoringFlag == ~survey_mission_complete

\* _is_drone_surveying (lines 182-191), the drone connected
IsDroneSurveying ==
    /\ survey_initiated_by_user
    /\ ~survey_mission_complete

\* should_enable of _check_proximity_and_update_ui (lines 207-211), for the
\* survey_mode_detected the tick has just written
ShouldEnable(d, surveying) ==
    /\ PROXIMITY_THRESHOLD >= d
    /\ d > 0
    /\ ~surveying
    /\ is_following

\* The events of the head of a tick: the survey edges (lines 249-315) and the
\* button change (lines 213-220), checked: the cooldown was over.
ReadEvents(surveying, d, checked) ==
    (IF surveying /\ ~last_survey_mode_state
     THEN {"survey_started"} ELSE {})
    \cup (IF last_survey_mode_state /\ ~surveying
          THEN {"survey_completed"} ELSE {})
    \cup (IF checked
             /\ survey_button_enabled # ShouldEnable(d, surveying)
          THEN {"survey_button_state_changed"} ELSE {})

\* The test of line 229, left out
NotConnectedIgnored(conn) == FALSE

\* Line 229: the drone or the rover has no link (conn is false).
NotConnected(conn) == ~conn

\* The test of line 238, left out
PositionMissingIgnored(d) == FALSE

\* Line 238: _calculate_distance returned -1, a latitude missing (line 60).
PositionMissing(d) == d = -1

\* What the head of a tick found: "wait" without the two links, "skip"
\* with them and without a position, "none" with both.
HeadCase(conn, d) ==
    IF ~conn THEN "wait" ELSE IF d = -1 THEN "skip" ELSE "none"

\* The head of a tick (lines 225-247): the stop check; the connected check
\* and the distance, either of which skips the tick; is_surveying.  A
\* distance that does not skip the tick is a local no other context reads:
\* its value enters the model in LoopEdges, where it is first used.
LoopRead(t, conn, d) ==
    /\ pc[t] = "top"
    /\ IF stop_event
       THEN /\ pc' = [pc EXCEPT ![t] = "exit"]
            /\ Resume(t, resume[t])
            /\ Out({}, {})
            /\ UNCHANGED <<tickVars, evaluated, sideVars>>
       ELSE IF NotConnected(conn) \/ PositionMissing(d)
       THEN \* time.sleep(5); continue, or 20 * time.sleep(0.1); continue
            /\ branch' = [branch EXCEPT ![t] = HeadCase(conn, d)]
            /\ pc' = [pc EXCEPT ![t] = "sleep"]
            /\ Resume(t, resume[t])
            /\ Out({}, {})
            /\ UNCHANGED <<is_following, survey_mode_detected,
                           last_survey_mode_state, survey_button_enabled,
                           survey_initiated_by_user, proxAge,
                           survey_abandoned, is_surveying, distance, seqOk,
                           tickSent, surveyRunning, evaluated,
                           sideVars>>
       ELSE /\ UNCHANGED distance
            /\ is_surveying' = [is_surveying EXCEPT ![t] = IsDroneSurveying]
            /\ UNCHANGED <<evaluated, sideVars>>
            /\ Out({}, {})
            /\ pc' = [pc EXCEPT ![t] = "edges"]
            /\ branch' = [branch EXCEPT ![t] = HeadCase(conn, d)]
            /\ Resume(t, resume[t])
            /\ UNCHANGED <<is_following, survey_mode_detected,
                           last_survey_mode_state, survey_button_enabled,
                           survey_initiated_by_user, proxAge,
                           survey_abandoned, seqOk, tickSent,
                           surveyRunning>>
    /\ UNCHANGED <<linkVars, reachedSinceUpload>>
    /\ UNCHANGED <<ctlVars, survey_mission_complete, last_waypoint_seq>>

\* The rest of the head of a tick (lines 249-334), d the distance of line
\* 237: the edge events of is_surveying, the two state flags, and
\* _check_proximity_and_update_ui, which returns at once during the cooldown.
TickEdges(t, d) ==
    /\ pc[t] = "edges"
    /\ distance' = [distance EXCEPT ![t] = d]
    /\ survey_mode_detected' = is_surveying[t]
    /\ last_survey_mode_state' = is_surveying[t]
    /\ IF proxAge < PROXIMITY_CHECK_COOLDOWN
       THEN UNCHANGED <<proxAge, survey_button_enabled>>
       ELSE /\ proxAge' = 0
            /\ survey_button_enabled' =
                 ShouldEnable(d, is_surveying[t])
    /\ Out({}, ReadEvents(is_surveying[t], d,
                          proxAge >= PROXIMITY_CHECK_COOLDOWN))
    /\ pc' = [pc EXCEPT ![t] = "decide"]
    /\ Resume(t, resume[t])
    /\ UNCHANGED <<is_following, survey_initiated_by_user, survey_abandoned,
                   is_surveying, branch, seqOk, tickSent,
                   surveyRunning>>
    /\ UNCHANGED <<linkVars, reachedSinceUpload>>
    /\ UNCHANGED <<ctlVars, survey_mission_complete, last_waypoint_seq>>

\* LoopEdges, the evaluations of is_surveying not recorded
LoopEdges(t, d) ==
    /\ TickEdges(t, d)
    /\ UNCHANGED <<evaluated, sideVars>>

\* LoopEdges, the evaluation of the tick recorded for the next one
LoopEdgesSeen(t, d) ==
    /\ TickEdges(t, d)
    /\ evaluated' = is_surveying[t]
    /\ UNCHANGED sideVars

\* Faulty variant: a survey in range does not keep the loop from following.
BranchWithoutPriority(surveying, d, following) ==
    IF surveying /\ d > MAX_FOLLOW_DISTANCE THEN "abandon"
    ELSE IF ~following THEN "follow" ELSE "goto"

\* The branch a tick takes (lines 344-345, 379-381, 427): follow-engagement
\* when not surveying and not following, the go-to alone when following, and
\* for a surveying drone the abandon beyond the max-follow distance or the
\* survey left to continue.
Branch(surveying, d, following) ==
    IF ~surveying
    THEN IF ~following THEN "follow" ELSE "goto"
    ELSE IF d > MAX_FOLLOW_DISTANCE THEN "abandon" ELSE "survey"

\* The decision (lines 344-348, 379-389, 427-450): the branch with the writes
\* it makes before any vehicle command.  The locals is_surveying and distance
\* are not read again in the tick.
LoopDecide(t) ==
    /\ pc[t] = "decide"
    /\ is_surveying' = [is_surveying EXCEPT ![t] = FALSE]
    /\ distance' = [distance EXCEPT ![t] = -1]
    /\ branch' = [branch EXCEPT ![t] =
                    Branch(is_surveying[t], distance[t], is_following)]
    /\ pc' = [pc EXCEPT ![t] =
                IF branch'[t] \in {"follow", "abandon"} THEN "seq"
                ELSE IF branch'[t] = "goto" THEN "goto" ELSE "sleep"]
    /\ IF branch'[t] = "abandon"
       THEN /\ survey_abandoned' = TRUE
            /\ survey_initiated_by_user' = FALSE
            /\ surveyRunning' = FALSE
            /\ Out({}, {})
            /\ UNCHANGED is_following
       ELSE IF branch'[t] = "survey"
       THEN /\ is_following' = FALSE
            /\ Out({}, IF is_following THEN {"following_paused"} ELSE {})
            /\ UNCHANGED <<survey_abandoned, survey_initiated_by_user,
                           surveyRunning>>
       ELSE /\ Out({}, {})
            /\ UNCHANGED <<is_following, survey_abandoned,
                           survey_initiated_by_user, surveyRunning>>
    /\ Resume(t, IF branch'[t] = "abandon" THEN "trying" ELSE "none")
    /\ UNCHANGED <<linkVars, reachedSinceUpload>>
    /\ UNCHANGED <<survey_mode_detected, last_survey_mode_state,
                   survey_button_enabled, proxAge, seqOk, tickSent, ctlVars,
                   survey_mission_complete, last_waypoint_seq>>
    /\ UNCHANGED <<evaluated, sideVars>>

\* The last step of _initiate_follow_sequence (lines 501-511):
\* set_mode(FlightMode.GUIDED) after the commands in before; it returns False
\* without sending on a link that is gone.
FinalModeSet(before) ==
    {[ok |-> TRUE, cmds |-> before \cup {"set_mode_guided"},
      fault |-> "none"],
     [ok |-> FALSE, cmds |-> before \cup {"set_mode_guided"},
      fault |-> "Failed to set FOLLOW mode after takeoff."],
     [ok |-> FALSE, cmds |-> before, fault |-> "Failed to set FOLLOW mode after takeoff."]}

\* Every way _initiate_follow_sequence (lines 459-511) can go for a drone
\* whose snapshot shows armed = a: the commands sent, the value returned
\* and the step the fault broadcast names.
FollowSequenceOutcomes(a) ==
    IF a
    THEN FinalModeSet({})
    ELSE \* arm(): no link, or the switch to GUIDED it needs fails, or the
         \* arming is not confirmed: nothing more is sent (lines 470-474)
         {[ok |-> FALSE, cmds |-> c, fault |-> "Failed to arm drone."] :
            c \in {{}, {"set_mode_guided"}, {"arm"},
                   {"set_mode_guided", "arm"}}}
         \* armed, then set_mode(GUIDED) fails: disarm
         \cup {[ok |-> FALSE, cmds |-> {"arm", "set_mode_guided", "disarm"},
                fault |-> "Failed to set GUIDED for takeoff."]}
         \* armed, GUIDED, then takeoff fails: disarm
         \cup {[ok |-> FALSE,
                cmds |-> {"arm", "set_mode_guided", "takeoff", "disarm"},
                fault |-> "Failed to takeoff."]}
         \* armed and airborne: the final mode set
         \cup FinalModeSet({"arm", "set_mode_guided", "takeoff"})

\* The reason of the coordination_fault broadcast (lines 472, 480, 491, 506)
FaultReason(fault) ==
    IF fault = "none" THEN {} ELSE {fault}

\* Faulty variant: a failing step is not reported.
SequenceEventsSilent(ok) == {}

\* The events _initiate_follow_sequence broadcasts: coordination_fault at
\* every return False (lines 471, 478, 488, 503).
SequenceEvents(ok) == IF ok THEN {} ELSE {"coordination_fault"}

\* self._initiate_follow_sequence(drone) (called at lines 348 and 409)
LoopSeq(t, a) ==
    /\ pc[t] = "seq"
    /\ \E r \in FollowSequenceOutcomes(a) :
          /\ seqOk' = [seqOk EXCEPT ![t] = r.ok]
          /\ tickSent' = [tickSent EXCEPT ![t] =
                            @ \/ r.cmds \cap FollowCmds # {}]
          /\ Out(r.cmds, SequenceEvents(r.ok) \cup FaultReason(r.fault))
          /\ pc' = [pc EXCEPT ![t] =
                      IF r.ok THEN "setfollow"
                      ELSE IF branch[t] = "follow" THEN "goto" ELSE "sleep"]
          /\ Resume(t, IF ~r.ok /\ branch[t] = "abandon" THEN "none"
                       ELSE resume[t])
    /\ UNCHANGED <<linkVars, reachedSinceUpload>>
    /\ UNCHANGED <<is_following, survey_mode_detected,
                   last_survey_mode_state, survey_button_enabled,
                   survey_initiated_by_user, proxAge, survey_abandoned,
                   is_surveying, distance, branch, surveyRunning, ctlVars,
                   survey_mission_complete, last_waypoint_seq>>
    /\ UNCHANGED <<evaluated, sideVars>>

\* self._is_following = True and the events after a sequence that returned
\* True (lines 349-366 and 410-424).
LoopSetFollow(t) ==
    /\ pc[t] = "setfollow"
    /\ is_following' = TRUE
    /\ Out({}, IF branch[t] = "abandon"
               THEN {"survey_abandoned", "following_triggered"}
               ELSE {"following_triggered"})
    /\ pc' = [pc EXCEPT ![t] = IF branch[t] = "abandon" THEN "sleep"
                               ELSE "goto"]
    /\ Resume(t, IF resume[t] = "trying" THEN "pending" ELSE resume[t])
    /\ UNCHANGED <<linkVars, reachedSinceUpload>>
    /\ UNCHANGED <<survey_mode_detected, last_survey_mode_state,
                   survey_button_enabled, survey_initiated_by_user, proxAge,
                   survey_abandoned, is_surveying, distance, branch, seqOk,
                   tickSent, surveyRunning, ctlVars, survey_mission_complete,
                   last_waypoint_seq>>
    /\ UNCHANGED <<evaluated, sideVars>>

\* if self._is_following: drone.go_to_location(...) (lines 368-377 and
\* Vehicle.go_to_location, which sends nothing on a link that is gone).
LoopGoto(t, conn) ==
    /\ pc[t] = "goto"
    /\ tickSent' = [tickSent EXCEPT ![t] = @ \/ (is_following /\ conn)]
    /\ Out(IF is_following /\ conn THEN {"goto"} ELSE {}, {})
    /\ pc' = [pc EXCEPT ![t] = "sleep"]
    /\ Resume(t, "none")
    /\ UNCHANGED <<linkVars, reachedSinceUpload>>
    /\ UNCHANGED <<is_following, survey_mode_detected,
                   last_survey_mode_state, survey_button_enabled,
                   survey_initiated_by_user, proxAge, survey_abandoned,
                   is_surveying, distance, branch, seqOk,
                   surveyRunning, ctlVars, survey_mission_complete,
                   last_waypoint_seq>>
    /\ UNCHANGED <<evaluated, sideVars>>

\* The sleep that ends a tick (lines 236, 243-246, 452), none shorter than
\* the cooldown of the proximity check; the tick's locals are dead after it.
LoopSleep(t) ==
    /\ pc[t] = "sleep"
    /\ proxAge' = Min(proxAge + LOOP_INTERVAL, PROXIMITY_CHECK_COOLDOWN)
    /\ pc' = [pc EXCEPT ![t] = "top"]
    /\ is_surveying' = [is_surveying EXCEPT ![t] = FALSE]
    /\ distance' = [distance EXCEPT ![t] = -1]
    /\ branch' = [branch EXCEPT ![t] = "none"]
    /\ seqOk' = [seqOk EXCEPT ![t] = FALSE]
    /\ tickSent' = [tickSent EXCEPT ![t] = FALSE]
    /\ Out({}, {})
    /\ Resume(t, resume[t])
    /\ UNCHANGED <<linkVars, reachedSinceUpload>>
    /\ UNCHANGED <<is_following, survey_mode_detected,
                   last_survey_mode_state, survey_button_enabled,
                   survey_initiated_by_user, survey_abandoned, surveyRunning,
                   ctlVars, survey_mission_complete, last_waypoint_seq>>
    /\ UNCHANGED <<evaluated, sideVars>>

\* After the loop (lines 454-457): the thread ends.
LoopExit(t) ==
    /\ pc[t] = "exit"
    /\ is_active' = FALSE
    /\ is_following' = FALSE
    /\ pc' = [pc EXCEPT ![t] = "idle"]
    /\ Resume(t, "none")
    /\ Out({}, {"coordination_stopped"})
    /\ UNCHANGED <<linkVars, reachedSinceUpload>>
    /\ UNCHANGED <<survey_mode_detected, last_survey_mode_state,
                   survey_button_enabled, survey_initiated_by_user, proxAge,
                   survey_abandoned, is_surveying, distance, branch, seqOk,
                   tickSent, surveyRunning, stop_event, curThread, apiPc,
                   survey_mission_complete, last_waypoint_seq>>
    /\ UNCHANGED <<evaluated, sideVars>>

\* A command of the tick raises: the drone's link is disconnected from the
\* API context between a command method's test of self.vehicle (vehicle.py
\* lines 103, 351, 442, 493, 531) and its use of self.vehicle.mav (lines 109,
\* 360, 465, 503, 536), and disconnect_vehicle has set self.vehicle = None
\* (line 268).  Neither _initiate_follow_sequence (lines 459-511) nor the
\* loop (lines 222-457) catches the AttributeError: the thread ends inside
\* its tick and lines 454-457 do not run.
LoopLinkLost(t) ==
    /\ \/ pc[t] = "seq"
       \/ pc[t] = "goto" /\ is_following
    /\ pc' = [pc EXCEPT ![t] = "idle"]
    /\ is_surveying' = [is_surveying EXCEPT ![t] = FALSE]
    /\ distance' = [distance EXCEPT ![t] = -1]
    /\ branch' = [branch EXCEPT ![t] = "none"]
    /\ seqOk' = [seqOk EXCEPT ![t] = FALSE]
    /\ tickSent' = [tickSent EXCEPT ![t] = FALSE]
    /\ Out({}, {})
    /\ Resume(t, "none")
    /\ UNCHANGED <<linkVars, reachedSinceUpload>>
    /\ UNCHANGED <<is_following, survey_mode_detected,
                   last_survey_mode_state, survey_button_enabled,
                   survey_initiated_by_user, proxAge, survey_abandoned,
                   surveyRunning, ctlVars, survey_mission_complete,
                   last_waypoint_seq>>
    /\ UNCHANGED <<evaluated, sideVars>>

(***************************************************************************)
(* The API context: the handlers of routes/coordination.py run one at a     *)
(* time on the event loop; a handler that blocks (stop's join, the survey's *)
(* upload) is interleaved with the loop threads.                            *)
(***************************************************************************)
\* The thread slot start() uses: the lowest one whose thread has ended.
FreeThread == CHOOSE t \in Threads :
                 /\ pc[t] = "idle"
                 /\ \A u \in Threads : pc[u] = "idle" => t <= u

\* Faulty variant: start() does not look at _is_active.
AlreadyActiveIgnored == FALSE

\* The test of start() (line 940)
AlreadyActive == is_active

\* The line start() prints when it does nothing (line 941)
AlreadyActiveLine == "Coordination service is already active."

\* The line stop() prints when it does nothing (line 972)
NotActiveLine == "Coordination service is not active."

\* CoordinationService.start (lines 939-968) on a service that is not active
Start ==
    /\ apiPc = "idle"
    /\ ~AlreadyActive
    /\ \E t \in Threads : pc[t] = "idle"
    /\ stop_event' = FALSE
    /\ curThread' = FreeThread
    /\ pc' = [pc EXCEPT ![FreeThread] = "top"]
    /\ is_active' = TRUE
    /\ Out({}, {"coordination_active"})
    /\ UNCHANGED <<linkVars, reachedSinceUpload>>
    /\ UNCHANGED <<tickVars, resume, apiPc, survey_mission_complete,
                   last_waypoint_seq>>
    /\ UNCHANGED <<evaluated, sideVars>>

\* CoordinationService.stop on an active service, up to the join (lines
\* 970-995)
StopSignal ==
    /\ apiPc = "idle"
    /\ is_active
    /\ stop_event' = TRUE
    /\ is_active' = FALSE
    /\ is_following' = FALSE
    /\ survey_mode_detected' = FALSE
    /\ last_survey_mode_state' = FALSE
    /\ survey_button_enabled' = FALSE
    /\ survey_initiated_by_user' = FALSE
    /\ apiPc' = "joining"
    /\ Out({}, {"coordination_stopped"})
    /\ UNCHANGED <<linkVars, reachedSinceUpload>>
    /\ UNCHANGED <<proxAge, curThread, survey_abandoned, pc, is_surveying,
                   distance, branch, seqOk, tickSent, resume, surveyRunning,
                   survey_mission_complete, last_waypoint_seq>>
    /\ UNCHANGED <<evaluated, sideVars>>

\* self._thread.join(timeout=10) (lines 997-1001): it returns when the thread
\* has ended, or after 10 s, which only a thread inside the follow-engagement
\* sequence (waits of 10 s, 15 s and 30 s) outlasts.
StopJoin ==
    /\ apiPc = "joining"
    /\ pc[curThread] \in {"idle", "seq"}
    /\ apiPc' = "idle"
    /\ Out({}, {})
    /\ UNCHANGED <<linkVars, reachedSinceUpload>>
    /\ UNCHANGED <<tickVars, is_active, stop_event, curThread, pc, resume,
                   survey_mission_complete, last_waypoint_seq>>
    /\ UNCHANGED <<evaluated, sideVars>>

\* The join of stop() when the loop thread ends within the 10 s.
StopJoinInTime ==
    /\ apiPc = "joining"
    /\ pc[curThread] = "idle"
    /\ StopJoin

\* CoordinationService.start on an active service (lines 940-942): the line
\* printed, False returned.
StartRefused ==
    /\ apiPc = "idle"
    /\ AlreadyActive
    /\ Out({}, {AlreadyActiveLine})
    /\ UNCHANGED <<linkVars, reachedSinceUpload>>
    /\ UNCHANGED <<tickVars, ctlVars, pc, resume, evaluated, sideVars,
                   survey_mission_complete, last_waypoint_seq>>

\* CoordinationService.stop on a service that is not active (lines
\* 971-973): the line printed.
StopRefused ==
    /\ apiPc = "idle"
    /\ ~is_active
    /\ Out({}, {NotActiveLine})
    /\ UNCHANGED <<linkVars, reachedSinceUpload>>
    /\ UNCHANGED <<tickVars, ctlVars, pc, resume, evaluated, sideVars,
                   survey_mission_complete, last_waypoint_seq>>

\* initiate_proximity_survey up to the button reset (lines 857-913); it is
\* refused, nothing written, unless the button is enabled and the rover's
\* position is known.
InitiateBegin ==
    /\ apiPc = "idle"
    /\ survey_button_enabled
    /\ survey_button_enabled' = FALSE
    /\ apiPc' = "init_flag"
    /\ Out({}, {"survey_button_state_changed"})
    /\ UNCHANGED <<linkVars, reachedSinceUpload>>
    /\ UNCHANGED <<is_following, survey_mode_detected,
                   last_survey_mode_state, survey_initiated_by_user, proxAge,
                   survey_abandoned, is_surveying, distance, branch, seqOk,
                   tickSent, surveyRunning, is_active, stop_event,
                   curThread, pc, resume, survey_mission_complete,
                   last_waypoint_seq>>
    /\ UNCHANGED <<evaluated, sideVars>>

\* self._survey_initiated_by_user = True (line 916)
InitiateFlag ==
    /\ apiPc = "init_flag"
    /\ survey_initiated_by_user' = TRUE
    /\ apiPc' = "init_exec"
    /\ resume' = [t \in Threads |-> "none"]
    /\ Out({}, {})
    /\ UNCHANGED <<linkVars, reachedSinceUpload>>
    /\ UNCHANGED <<is_following, survey_mode_detected,
                   last_survey_mode_state, survey_button_enabled, proxAge,
                   survey_abandoned, is_surveying, distance, branch, seqOk,
                   tickSent, surveyRunning, is_active, stop_event,
                   curThread, pc, survey_mission_complete,
                   last_waypoint_seq>>
    /\ UNCHANGED <<evaluated, sideVars>>

\* The seq upload_mission records for a survey mission of MaxWp waypoints
\* (vehicle.py lines 652-658): that of its last waypoint.
SurveyLastSeq == MaxWp - 1

\* execute_proximity_survey up to the upload (survey_service.py lines
\* 434-505) with Vehicle.upload_mission: once the clear is acknowledged the
\* completion flag is reset and the last survey waypoint recorded, and the
\* handshake that follows succeeds or not.
InitiateUpload ==
    /\ apiPc = "init_exec"
    /\ survey_abandoned' = FALSE
    /\ \/ \* no drone position, no link or no acknowledged clear: nothing else
          /\ apiPc' = "init_clear"
          /\ UNCHANGED <<survey_mission_complete, last_waypoint_seq,
                         reachedSinceUpload>>
       \/ /\ survey_mission_complete' = FALSE
          /\ last_waypoint_seq' = SurveyLastSeq
          /\ reachedSinceUpload' = FALSE
          /\ apiPc' \in {"init_mode", "init_clear"}
    /\ Out({}, {})
    /\ UNCHANGED linkVars
    /\ UNCHANGED <<is_following, survey_mode_detected,
                   last_survey_mode_state, survey_button_enabled,
                   survey_initiated_by_user, proxAge, is_surveying, distance,
                   branch, seqOk, tickSent, surveyRunning, is_active,
                   stop_event, curThread, pc, resume>>
    /\ UNCHANGED <<evaluated, sideVars>>

\* set_mode(AUTO) and start_mission() (survey_service.py lines 510-517).
\* backend.models.vehicle.Vehicle defines no start_mission: once the mode is
\* set the call raises AttributeError, which leaves initiate_proximity_survey
\* at line 919 (the route catches it), so line 924 does not run.  The drone,
\* in AUTO with the mission uploaded, flies the survey.
InitiateMode ==
    /\ apiPc = "init_mode"
    /\ \/ /\ surveyRunning' = TRUE
          /\ apiPc' = "idle"
       \/ /\ apiPc' = "init_clear"
          /\ UNCHANGED surveyRunning
    /\ Out({}, {})
    /\ UNCHANGED <<linkVars, reachedSinceUpload>>
    /\ UNCHANGED <<is_following, survey_mode_detected,
                   last_survey_mode_state, survey_button_enabled,
                   survey_initiated_by_user, proxAge, survey_abandoned,
                   is_surveying, distance, branch, seqOk, tickSent,
                   is_active, stop_event, curThread, pc, resume,
                   survey_mission_complete, last_waypoint_seq>>
    /\ UNCHANGED <<evaluated, sideVars>>

\* self._survey_initiated_by_user = False (line 924), after
\* execute_proximity_survey returned
InitiateClear ==
    /\ apiPc = "init_clear"
    /\ survey_initiated_by_user' = FALSE
    /\ apiPc' = "idle"
    /\ Out({}, {})
    /\ UNCHANGED <<linkVars, reachedSinceUpload>>
    /\ UNCHANGED <<is_following, survey_mode_detected,
                   last_survey_mode_state, survey_button_enabled, proxAge,
                   survey_abandoned, is_surveying, distance, branch, seqOk,
                   tickSent, surveyRunning, is_active, stop_event,
                   curThread, pc, resume, survey_mission_complete,
                   last_waypoint_seq>>
    /\ UNCHANGED <<evaluated, sideVars>>

(***************************************************************************)
(* The drone's listener and time                                            *)
(***************************************************************************)
\* MISSION_ITEM_REACHED for the last survey waypoint (vehicle.py lines
\* 741-752): the survey is flown to its end.
SurveyItemReached ==
    /\ last_waypoint_seq # -1
    /\ ~survey_mission_complete
    /\ survey_mission_complete' = TRUE
    /\ reachedSinceUpload' = TRUE
    /\ surveyRunning' = FALSE
    /\ Out({}, {})
    /\ UNCHANGED linkVars
    /\ UNCHANGED <<is_following, survey_mode_detected,
                   last_survey_mode_state, survey_button_enabled,
                   survey_initiated_by_user, proxAge, survey_abandoned,
                   is_surveying, distance, branch, seqOk, tickSent,
                   ctlVars, pc, resume, last_waypoint_seq>>
    /\ UNCHANGED <<evaluated, sideVars>>

\* Time goes by until the cooldown of the proximity check is over.
TimePasses ==
    /\ proxAge < PROXIMITY_CHECK_COOLDOWN
    /\ proxAge' = PROXIMITY_CHECK_COOLDOWN
    /\ Out({}, {})
    /\ UNCHANGED <<linkVars, reachedSinceUpload>>
    /\ UNCHANGED <<is_following, survey_mode_detected,
                   last_survey_mode_state, survey_button_enabled,
                   survey_initiated_by_user, survey_abandoned, is_surveying,
                   distance, branch, seqOk, tickSent, surveyRunning,
                   ctlVars, pc, resume, survey_mission_complete,
                   last_waypoint_seq>>
    /\ UNCHANGED <<evaluated, sideVars>>

LoopStep(t) ==
    \/ \E conn \in BOOLEAN, d \in Dists \cup {-1} : LoopRead(t, conn, d)
    \/ \E d \in Dists : LoopEdges(t, d)
    \/ LoopDecide(t)
    \/ \E a \in BOOLEAN : LoopSeq(t, a)
    \/ LoopSetFollow(t)
    \/ \E conn \in BOOLEAN : LoopGoto(t, conn)
    \/ LoopSleep(t)
    \/ LoopExit(t)

CoordNext ==
    \/ \E t \in Threads : LoopStep(t)
    \/ Start
    \/ StopSignal
    \/ StopJoin
    \/ InitiateBegin
    \/ InitiateFlag
    \/ InitiateUpload
    \/ InitiateMode
    \/ InitiateClear
    \/ SurveyItemReached
    \/ TimePasses

\* A step of a loop thread, its evaluations of is_surveying recorded.
LoopStepSeen(t) ==
    \/ \E conn \in BOOLEAN, d \in Dists \cup {-1} : LoopRead(t, conn, d)
    \/ \E d \in Dists : LoopEdgesSeen(t, d)
    \/ LoopDecide(t)
    \/ \E a \in BOOLEAN : LoopSeq(t, a)
    \/ LoopSetFollow(t)
    \/ \E conn \in BOOLEAN : LoopGoto(t, conn)
    \/ LoopSleep(t)
    \/ LoopExit(t)

\* The service when every stop() sees its loop thread end within the join:
\* one loop thread at a time.  The calls of start() and stop() that do
\* nothing are steps, and so is the loss of the drone's link inside a
\* command of the tick.
OneLoopNext ==
    \/ \E t \in Threads : LoopStepSeen(t)
    \/ \E t \in Threads : LoopLinkLost(t)
    \/ Start
    \/ StartRefused
    \/ StopSignal
    \/ StopRefused
    \/ StopJoinInTime
    \/ InitiateBegin
    \/ InitiateFlag
    \/ InitiateUpload
    \/ InitiateMode
    \/ InitiateClear
    \/ SurveyItemReached
    \/ TimePasses

vars == <<coordVars, survey_mission_complete, last_waypoint_seq,
          reachedSinceUpload, linkVars, sideVars>>

(***************************************************************************)
(* The vehicle link: one Vehicle object (models/vehicle.py) with the        *)
(* autopilot it talks to, the two mission uploads (Vehicle.upload_mission,  *)
(* used by the surveys, and VehicleService.upload_mission, used by the      *)
(* upload route), the message listener and the mission routes.              *)
(***************************************************************************)
\* self.current_waypoint_seq = None (line 42)
None == -1

\* The mission keys of a mission of n waypoints: the indices 0..n-1
\* (fetch_mission_waypoints, line 323; the surveys build seq = index).
Keys(n) == 0..(n - 1)

Indices == Keys(MaxWp)

\* The mission state of a link that has done nothing yet.
NoMissionState ==
    [vehicleMission |-> 0, mission_waypoints |-> {},
     visited_waypoints |-> {}, last_waypoint_seq |-> -1,
     survey_mission_complete |-> FALSE]

LinkInit ==
    /\ mission_waypoints = {}
    /\ visited_waypoints = {}
    /\ current_waypoint_seq = None
    /\ waypoint_visit_candidates = [w \in Indices |-> None]
    /\ strayed = {}
    /\ survey_mission_complete = FALSE
    /\ last_waypoint_seq = -1
    /\ vehicleMission \in 0..MaxWp
    /\ upPc = "idle"
    /\ upImpl = "vehicle"
    /\ upN = 0
    /\ upIdx = 0
    /\ upSent = <<>>
    /\ upResult = "none"
    /\ lastReq = None
    /\ upWrong = FALSE
    /\ upAcked = FALSE
    /\ pre = NoMissionState
    /\ reachedSinceUpload = FALSE
    /\ fetchPc = "idle"

\* The mission state upload_mission is to leave alone when it fails.
MissionState ==
    [vehicleMission |-> vehicleMission,
     mission_waypoints |-> mission_waypoints,
     visited_waypoints |-> visited_waypoints,
     last_waypoint_seq |-> last_waypoint_seq,
     survey_mission_complete |-> survey_mission_complete]

\* _update_current_next_waypoints (lines 877-905), the value it gives
\* current_waypoint_seq: the first unvisited key, or the last key.
FirstUnvisited(mission, visited) ==
    IF mission \ visited # {}
    THEN CHOOSE s \in mission \ visited :
            \A u \in mission \ visited : s <= u
    ELSE CHOOSE s \in mission : \A u \in mission : u <= s

\* An upload is called with n waypoints (vehicle.py line 615,
\* vehicle_service.py line 132) on a connected link: nothing is sent yet.
UploadStart(impl, n) ==
    /\ upPc = "idle"
    /\ fetchPc = "idle"
    /\ upImpl' = impl
    /\ upN' = n
    /\ upIdx' = 0
    /\ upSent' = <<>>
    /\ upResult' = "none"
    /\ lastReq' = None
    /\ upWrong' = FALSE
    /\ upAcked' = FALSE
    /\ pre' = MissionState
    /\ upPc' = "clear"
    /\ UNCHANGED <<coordVars, cmdVars, sideVars>>
    /\ UNCHANGED <<mission_waypoints, visited_waypoints,
                   current_waypoint_seq, visitTimers,
                   survey_mission_complete, last_waypoint_seq,
                   vehicleMission, reachedSinceUpload, fetchPc>>

\* The clear of the old mission (clear_mission, lines 569-600;
\* vehicle_service.py lines 165-179).  Acknowledged: Vehicle.upload_mission
\* resets the completion flag, records the seq of the last waypoint (lines
\* 645-658) and sends the count.  Rejected or not acknowledged in time: the
\* upload fails.
UploadClear(acked) ==
    /\ upPc = "clear"
    /\ vehicleMission' = IF acked THEN 0 ELSE vehicleMission
    /\ IF acked
       THEN /\ upPc' = "request"
            /\ UNCHANGED upResult
            /\ IF upImpl = "vehicle"
               THEN /\ survey_mission_complete' = FALSE
                    /\ last_waypoint_seq' = upN - 1
                    /\ reachedSinceUpload' = FALSE
               ELSE UNCHANGED <<survey_mission_complete, last_waypoint_seq,
                                reachedSinceUpload>>
       ELSE /\ upPc' = "done"
            /\ upResult' = "fail"
            /\ UNCHANGED <<survey_mission_complete, last_waypoint_seq,
                           reachedSinceUpload>>
    /\ UNCHANGED <<coordVars, cmdVars, sideVars>>
    /\ UNCHANGED <<mission_waypoints, visited_waypoints,
                   current_waypoint_seq, visitTimers, upImpl,
                   upN, upIdx, upSent, lastReq, upWrong, upAcked, pre,
                   fetchPc>>

\* Faulty variant: any request is taken for the one waited for.
IsExpectedAny(j, i) == TRUE

\* msg.seq == i (vehicle.py line 680), msg.seq != i (vehicle_service.py
\* line 195)
IsExpected(j, i) == j = i

\* A MISSION_REQUEST for index j arrives while the upload waits for the
\* request of item upIdx (vehicle.py lines 673-704, vehicle_service.py lines
\* 182-243).  The expected one: the item is sent.  Another one:
\* VehicleService.upload_mission returns False, Vehicle.upload_mission goes
\* on waiting.
UploadRequest(j) ==
    /\ upPc = "request"
    /\ lastReq' = j
    /\ IF IsExpected(j, upIdx)
       THEN /\ upSent' = Append(upSent, upIdx)
            /\ upIdx' = upIdx + 1
            /\ upPc' = IF upIdx + 1 = upN THEN "ack" ELSE "request"
            /\ UNCHANGED <<upWrong, upResult>>
       ELSE /\ upWrong' = TRUE
            /\ upPc' = IF upImpl = "service" THEN "done" ELSE "request"
            /\ upResult' = IF upImpl = "service" THEN "fail" ELSE upResult
            /\ UNCHANGED <<upSent, upIdx>>
    /\ UNCHANGED <<coordVars, cmdVars, sideVars>>
    /\ UNCHANGED <<mission_waypoints, visited_waypoints,
                   current_waypoint_seq, visitTimers,
                   survey_mission_complete, last_waypoint_seq,
                   vehicleMission, upImpl, upN, upAcked, pre,
                   reachedSinceUpload, fetchPc>>

\* No request the upload accepts within 10 s (vehicle.py lines 682-684,
\* vehicle_service.py lines 187-191): the upload fails.
UploadRequestTimeout ==
    /\ upPc = "request"
    /\ upPc' = "done"
    /\ upResult' = "fail"
    /\ UNCHANGED <<coordVars, cmdVars, sideVars>>
    /\ UNCHANGED <<mission_waypoints, visited_waypoints,
                   current_waypoint_seq, visitTimers,
                   survey_mission_complete, last_waypoint_seq,
                   vehicleMission, upImpl, upN, upIdx, upSent, lastReq,
                   upWrong, upAcked, pre, reachedSinceUpload, fetchPc>>

\* The final MISSION_ACK (vehicle.py lines 706-725, vehicle_service.py lines
\* 245-254).  Accepted: the autopilot holds the new mission;
\* Vehicle.upload_mission fetches it back before it returns True,
\* VehicleService.upload_mission returns the count.  Another code or none in
\* time: the upload fails.
UploadAck(accepted) ==
    /\ upPc = "ack"
    /\ IF accepted
       THEN /\ vehicleMission' = upN
            /\ upAcked' = TRUE
            /\ IF upImpl = "vehicle"
               THEN /\ upPc' = "fetch"
                    /\ fetchPc' = "count"
                    /\ UNCHANGED upResult
               ELSE /\ upPc' = "done"
                    /\ upResult' = "ok"
                    /\ UNCHANGED fetchPc
       ELSE /\ upPc' = "done"
            /\ upResult' = "fail"
            /\ UNCHANGED <<vehicleMission, upAcked, fetchPc>>
    /\ UNCHANGED <<coordVars, cmdVars, sideVars>>
    /\ UNCHANGED <<mission_waypoints, visited_waypoints,
                   current_waypoint_seq, visitTimers,
                   survey_mission_complete, last_waypoint_seq, upImpl, upN,
                   upIdx, upSent, lastReq, upWrong, pre, reachedSinceUpload>>

\* The caller has the value the upload returned; what the upload kept of
\* its handshake is gone.
UploadReturn ==
    /\ upPc = "done"
    /\ upPc' = "idle"
    /\ upImpl' = "vehicle"
    /\ upN' = 0
    /\ upIdx' = 0
    /\ upSent' = <<>>
    /\ upResult' = "none"
    /\ lastReq' = None
    /\ upWrong' = FALSE
    /\ upAcked' = FALSE
    /\ pre' = NoMissionState
    /\ UNCHANGED <<coordVars, cmdVars, sideVars>>
    /\ UNCHANGED <<mission_waypoints, visited_waypoints,
                   current_waypoint_seq, visitTimers,
                   survey_mission_complete, last_waypoint_seq,
                   vehicleMission, reachedSinceUpload, fetchPc>>

\* The end of fetch_mission_waypoints: when upload_mission called it (line
\* 718), the upload returns True.
FetchReturns ==
    /\ fetchPc' = "idle"
    /\ IF upPc = "fetch"
       THEN upPc' = "done" /\ upResult' = "ok"
       ELSE UNCHANGED <<upPc, upResult>>

\* connect_vehicle calls fetch_mission_waypoints (line 165): the request for
\* the mission list goes out.
FetchStart ==
    /\ upPc = "idle"
    /\ fetchPc = "idle"
    /\ fetchPc' = "count"
    /\ UNCHANGED <<coordVars, cmdVars, sideVars>>
    /\ UNCHANGED <<mission_waypoints, visited_waypoints,
                   current_waypoint_seq, visitTimers,
                   survey_mission_complete, last_waypoint_seq,
                   vehicleMission, upPc, upImpl, upN, upIdx, upSent,
                   upResult, lastReq, upWrong, upAcked, pre,
                   reachedSinceUpload>>

\* fetch_mission_waypoints, the MISSION_COUNT (lines 312-321): with it the
\* waypoint cache is emptied; without it the fetch returns.
FetchCount(got) ==
    /\ fetchPc = "count"
    /\ IF got
       THEN /\ mission_waypoints' = {}
            /\ fetchPc' = "items"
            /\ UNCHANGED <<upPc, upResult>>
       ELSE /\ FetchReturns
            /\ UNCHANGED mission_waypoints
    /\ UNCHANGED <<coordVars, cmdVars, sideVars>>
    /\ UNCHANGED <<visited_waypoints, current_waypoint_seq,
                   visitTimers, survey_mission_complete,
                   last_waypoint_seq, vehicleMission, upImpl, upN, upIdx,
                   upSent, lastReq, upWrong, upAcked, pre,
                   reachedSinceUpload>>

\* fetch_mission_waypoints, the items (lines 323-344): the cache gets the
\* keys got of the items that arrived in time; the load of the persisted
\* visited set that follows changes nothing (LoadPreviousVisitedWaypoints).
FetchItems(got) ==
    /\ fetchPc = "items"
    /\ got \subseteq Keys(vehicleMission)
    /\ mission_waypoints' = got
    /\ FetchReturns
    /\ UNCHANGED <<coordVars, cmdVars, sideVars>>
    /\ UNCHANGED <<visited_waypoints, current_waypoint_seq,
                   visitTimers, survey_mission_complete,
                   last_waypoint_seq, vehicleMission, upImpl, upN, upIdx,
                   upSent, lastReq, upWrong, upAcked, pre,
                   reachedSinceUpload>>

\* load_previous_visited_waypoints (lines 282-300), called by set_site_name
\* with the set prev on disk: waypoint_file_service has no
\* load_visited_waypoints, the AttributeError is caught at line 299 and
\* nothing is loaded.
LoadPreviousVisitedWaypoints(prev) ==
    /\ upPc = "idle"
    /\ fetchPc = "idle"
    /\ prev \subseteq Indices
    /\ UNCHANGED <<coordVars, cmdVars, sideVars>>
    /\ UNCHANGED <<mission_waypoints, visited_waypoints,
                   current_waypoint_seq, visitTimers,
                   survey_mission_complete, last_waypoint_seq,
                   vehicleMission, upPc, upImpl, upN, upIdx, upSent,
                   upResult, lastReq, upWrong, upAcked, pre,
                   reachedSinceUpload, fetchPc>>

\* Faulty variant: any waypoint reached completes the survey.
ReachesAny(s) == TRUE

\* self.last_waypoint_seq != -1 and msg.seq >= self.last_waypoint_seq
\* (line 748)
ReachesLastSurveyWaypoint(s) ==
    last_waypoint_seq # -1 /\ s >= last_waypoint_seq

\* The listener takes a MISSION_ITEM_REACHED for seq s (lines 741-752).
ItemReached(s) ==
    /\ survey_mission_complete' =
         (survey_mission_complete \/ ReachesLastSurveyWaypoint(s))
    /\ reachedSinceUpload' =
         (reachedSinceUpload \/ (last_waypoint_seq # -1
                                   /\ s >= last_waypoint_seq))
    /\ UNCHANGED <<coordVars, cmdVars, sideVars>>
    /\ UNCHANGED <<mission_waypoints, visited_waypoints,
                   current_waypoint_seq, visitTimers,
                   last_waypoint_seq, vehicleMission, upPc, upImpl, upN,
                   upIdx, upSent, upResult, lastReq, upWrong, upAcked, pre,
                   fetchPc>>

\* The listener takes a MISSION_CURRENT for seq s (lines 772-786).
MissionCurrent(s) ==
    /\ current_waypoint_seq' = s
    /\ UNCHANGED <<coordVars, cmdVars, sideVars>>
    /\ UNCHANGED <<mission_waypoints, visited_waypoints,
                   visitTimers, survey_mission_complete,
                   last_waypoint_seq, vehicleMission, upPc, upImpl, upN,
                   upIdx, upSent, upResult, lastReq, upWrong, upAcked, pre,
                   reachedSinceUpload, fetchPc>>

\* The keys that hold a visit timer.
Candidates == {w \in Indices : waypoint_visit_candidates[w] # None}

\* The listener takes a GLOBAL_POSITION_INT (lines 753-766) and runs
\* _check_waypoint_visits (lines 907-950): the position is d metres from
\* waypoint w and beyond the visit threshold from every other waypoint.
\* Without a waypoint cache the check returns at once; a visited waypoint is
\* passed over; an unvisited one within the threshold gets a timer, or is
\* marked visited when its timer has run the confirmation delay; one beyond
\* the threshold loses its timer.
PositionUpdate(w, d) ==
    /\ LET near(u) == u = w /\ d <= WAYPOINT_VISIT_THRESHOLD
           unvisited == IF mission_waypoints = {} THEN {}
                        ELSE mission_waypoints \ visited_waypoints
           confirmed(u) ==
               /\ u \in unvisited
               /\ near(u)
               /\ waypoint_visit_candidates[u] # None
               /\ waypoint_visit_candidates[u] >= WAYPOINT_CONFIRMATION_DELAY
       IN /\ visited_waypoints' =
               visited_waypoints \cup {u \in Indices : confirmed(u)}
          /\ waypoint_visit_candidates' =
               [u \in Indices |->
                  IF u \notin unvisited THEN waypoint_visit_candidates[u]
                  ELSE IF ~near(u) \/ confirmed(u) THEN None
                  ELSE IF waypoint_visit_candidates[u] = None THEN 0
                  ELSE waypoint_visit_candidates[u]]
          /\ strayed' =
               {u \in Indices :
                  /\ waypoint_visit_candidates'[u] # None
                  /\ u \in Candidates
                  /\ u \in strayed \/ ~near(u)}
          /\ current_waypoint_seq' =
               IF \E u \in Indices : confirmed(u)
               THEN FirstUnvisited(mission_waypoints, visited_waypoints')
               ELSE current_waypoint_seq
    /\ UNCHANGED <<coordVars, cmdVars, sideVars>>
    /\ UNCHANGED <<mission_waypoints, survey_mission_complete,
                   last_waypoint_seq, vehicleMission, upPc, upImpl, upN,
                   upIdx, upSent, upResult, lastReq, upWrong, upAcked, pre,
                   reachedSinceUpload, fetchPc>>

\* A second goes by on the clock the visit timers are read against.
ClockTick ==
    /\ \E w \in Candidates :
          waypoint_visit_candidates[w] < WAYPOINT_CONFIRMATION_DELAY
    /\ waypoint_visit_candidates' =
         [w \in Indices |->
            IF w \in Candidates /\
               waypoint_visit_candidates[w] < WAYPOINT_CONFIRMATION_DELAY
            THEN waypoint_visit_candidates[w] + 1
            ELSE waypoint_visit_candidates[w]]
    /\ UNCHANGED <<coordVars, cmdVars, sideVars>>
    /\ UNCHANGED <<mission_waypoints, visited_waypoints,
                   current_waypoint_seq, strayed, survey_mission_complete,
                   last_waypoint_seq, vehicleMission, upPc, upImpl, upN,
                   upIdx, upSent, upResult, lastReq, upWrong, upAcked, pre,
                   reachedSinceUpload, fetchPc>>

\* reset_mission_progress (routes/vehicle.py lines 210-232), the clear of the
\* file succeeding where there is one
ResetMissionProgress ==
    /\ upPc = "idle"
    /\ fetchPc = "idle"
    /\ visited_waypoints' = {}
    /\ current_waypoint_seq' = 0
    /\ UNCHANGED <<coordVars, cmdVars, sideVars>>
    /\ UNCHANGED <<mission_waypoints, visitTimers,
                   survey_mission_complete, last_waypoint_seq,
                   vehicleMission, upPc, upImpl, upN, upIdx, upSent,
                   upResult, lastReq, upWrong, upAcked, pre,
                   reachedSinceUpload, fetchPc>>

\* clear_vehicle_mission (routes/vehicle.py lines 235-259) with
\* Vehicle.clear_mission: the in-memory mission data is reset when the clear
\* is acknowledged.
ClearVehicleMission(acked) ==
    /\ upPc = "idle"
    /\ fetchPc = "idle"
    /\ vehicleMission' = IF acked THEN 0 ELSE vehicleMission
    /\ IF acked
       THEN /\ mission_waypoints' = {}
            /\ visited_waypoints' = {}
            /\ current_waypoint_seq' = 0
       ELSE UNCHANGED <<mission_waypoints, visited_waypoints,
                        current_waypoint_seq>>
    /\ UNCHANGED <<coordVars, cmdVars, sideVars>>
    /\ UNCHANGED <<visitTimers, survey_mission_complete,
                   last_waypoint_seq, upPc, upImpl, upN, upIdx, upSent,
                   upResult, lastReq, upWrong, upAcked, pre,
                   reachedSinceUpload, fetchPc>>

LinkNext ==
    \/ \E impl \in {"vehicle", "service"}, n \in 1..MaxWp :
          UploadStart(impl, n)
    \/ \E acked \in BOOLEAN : UploadClear(acked)
    \/ \E j \in Indices : UploadRequest(j)
    \/ UploadRequestTimeout
    \/ \E accepted \in BOOLEAN : UploadAck(accepted)
    \/ UploadReturn
    \/ FetchStart
    \/ \E got \in BOOLEAN : FetchCount(got)
    \/ \E got \in SUBSET Indices : FetchItems(got)
    \/ \E prev \in SUBSET Indices : LoadPreviousVisitedWaypoints(prev)
    \/ \E s \in Indices : ItemReached(s)
    \/ \E s \in Indices : MissionCurrent(s)
    \/ \E w \in Indices, d \in WpDists : PositionUpdate(w, d)
    \/ ClockTick
    \/ ResetMissionProgress
    \/ \E acked \in BOOLEAN : ClearVehicleMission(acked)


(***************************************************************************)
(* The connection of a vehicle link (Vehicle.connect_vehicle,              *)
(* disconnect_vehicle), its worker threads (_message_listener_loop,        *)
(* _heartbeat_loop) and the calls of another context: set_mode, arm and    *)
(* the mission routes.  The routes are coroutines of one event loop and    *)
(* call the link without awaiting: one call at a time.                     *)
(***************************************************************************)
\* timeout_duration of set_mode and the timeout of arm's wait, in seconds
SET_MODE_TIMEOUT == 15
ARM_TIMEOUT == 10

\* The most the clock advances between two polls of a wait, in seconds.
Quantum == 10

\* The pairs of worker threads that can exist at once: connect_vehicle
\* creates a pair whether or not an earlier pair has exited.
MaxConnects == 2

\* FlightMode members (core/flight_modes.py)
Modes == {"GUIDED", "AUTO"}

\* _get_initial_telemetry_dict (lines 62-93): custom_mode, flight_mode and
\* armed are None; a None flight_mode has no bit set and a None armed is
\* false wherever the code tests it.
NoTelemetry == [custom_mode |-> "None", enabled |-> FALSE, armed |-> FALSE]

\* What a HEARTBEAT can put in the snapshot (_update_telemetry_state, lines
\* 792-803): custom_mode, base_mode and the armed bit of base_mode.
Heartbeats == [custom_mode : Modes, enabled : BOOLEAN, armed : BOOLEAN]

CmdInit ==
    /\ vehicle = "none"
    /\ stop_threads = FALSE
    /\ listeners = 0
    /\ heartbeats = 0
    /\ lock = "free"
    /\ last_telemetry = NoTelemetry
    /\ op = "idle"
    /\ opPc = "none"
    /\ smPc = "off"
    /\ want = "None"
    /\ elapsed = 0
    /\ out = {}
    /\ touch = "none"
    /\ armSaw = "None"
    /\ armSent = FALSE
    /\ switches = 0

\* The variables the calls and the workers of this part leave alone.
otherVars == <<coordVars, survey_mission_complete, last_waypoint_seq,
               reachedSinceUpload, visitTimers, upPc, upImpl, upN, upIdx,
               upSent, upResult, lastReq, upWrong, upAcked, pre, fetchPc,
               sideVars>>

missionFields == <<mission_waypoints, visited_waypoints,
                   current_waypoint_seq, vehicleMission>>

workerVars == <<vehicle, stop_threads, listeners, heartbeats>>

callVars == <<op, opPc, smPc, want, elapsed>>

armGhosts == <<armSaw, armSent, switches>>

\* `if not self.vehicle` of every call, mutated
IsConnectedAlways == TRUE

\* `if self.vehicle` (lines 102, 247, 351, 442, 571)
IsConnected == vehicle # "none"

\* ---- a message listener thread (lines 206-243)
\* The listener threads in recv_match or at the head of their loop.
Receiving == listeners - (IF lock = "listener" THEN 1 ELSE 0)

\* recv_match returned a message and the thread entered `with self._lock`.
ListenerReceive ==
    /\ Receiving > 0
    /\ vehicle = "open"
    /\ lock = "free"
    /\ lock' = "listener"
    /\ out' = {}
    /\ touch' = "none"
    /\ UNCHANGED <<workerVars, last_telemetry, callVars, armGhosts,
                   missionFields, otherVars>>

\* _update_telemetry_state under the lock: a HEARTBEAT hb, or a message of
\* another type (hb = last_telemetry), and the lock is released.
ListenerUpdate(hb) ==
    /\ lock = "listener"
    /\ last_telemetry' = hb
    /\ lock' = "free"
    /\ out' = {}
    /\ touch' = "locked"
    /\ UNCHANGED <<workerVars, callVars, armGhosts, missionFields,
                   otherVars>>

\* `while not self._stop_threads.is_set()` (line 227) ends the thread.
ListenerExit ==
    /\ Receiving > 0
    /\ stop_threads
    /\ listeners' = listeners - 1
    /\ out' = {}
    /\ touch' = "none"
    /\ UNCHANGED <<vehicle, stop_threads, heartbeats, lock, last_telemetry,
                   callVars, armGhosts, missionFields, otherVars>>

\* ---- a heartbeat thread (lines 186-204)
HeartbeatSend ==
    /\ heartbeats > 0
    /\ ~stop_threads
    /\ IF IsConnected
       THEN /\ out' = {"send_heartbeat"}
            /\ UNCHANGED heartbeats
       ELSE /\ out' = {}
            /\ heartbeats' = heartbeats - 1
    /\ touch' = "none"
    /\ UNCHANGED <<vehicle, stop_threads, listeners, lock, last_telemetry,
                   callVars, armGhosts, missionFields, otherVars>>

HeartbeatExit ==
    /\ heartbeats > 0
    /\ stop_threads
    /\ heartbeats' = heartbeats - 1
    /\ out' = {}
    /\ touch' = "none"
    /\ UNCHANGED <<vehicle, stop_threads, listeners, lock, last_telemetry,
                   callVars, armGhosts, missionFields, otherVars>>

\* ---- connect_vehicle (lines 134-184)
\* Lines 139-144: the transport is opened and stored, wait_heartbeat begins.
ConnectCall ==
    /\ op = "idle"
    /\ listeners < MaxConnects
    /\ heartbeats < MaxConnects
    /\ vehicle' = "open"
    /\ op' = "connect"
    /\ opPc' = "heartbeat"
    /\ out' = {"call_connect"}
    /\ touch' = "none"
    /\ UNCHANGED <<stop_threads, listeners, heartbeats, lock, last_telemetry,
                   smPc, want, elapsed, armGhosts, missionFields, otherVars>>

\* Lines 144-165: without a heartbeat in 10 s the call raises, self.vehicle
\* left as it is; with one the stop flag is cleared and the fetch begins.
ConnectHeartbeat(got) ==
    /\ op = "connect"
    /\ opPc = "heartbeat"
    /\ IF got
       THEN /\ stop_threads' = FALSE
            /\ opPc' = "fetch"
            /\ out' = {"send_statustext", "send_mission_request_list"}
            /\ UNCHANGED op
       ELSE /\ op' = "idle"
            /\ opPc' = "none"
            /\ out' = {"raise"}
            /\ UNCHANGED stop_threads
    /\ touch' = "none"
    /\ UNCHANGED <<vehicle, listeners, heartbeats, lock, last_telemetry,
                   smPc, want, elapsed, armGhosts, missionFields, otherVars>>

\* Lines 165-169: fetch_mission_waypoints (lines 302-347) stores the keys got
\* when the MISSION_COUNT arrived, and _update_current_next_waypoints (lines
\* 877-905) sets the current waypoint; neither takes the lock.
ConnectFetch(count, got) ==
    /\ op = "connect"
    /\ opPc = "fetch"
    /\ got \subseteq Keys(vehicleMission)
    /\ mission_waypoints' = IF count THEN got ELSE mission_waypoints
    /\ current_waypoint_seq' =
          IF mission_waypoints' # {}
          THEN FirstUnvisited(mission_waypoints', visited_waypoints)
          ELSE current_waypoint_seq
    /\ opPc' = "start"
    /\ out' = {}
    /\ touch' = "bare"
    /\ UNCHANGED <<workerVars, lock, last_telemetry, op, smPc, want,
                   elapsed, armGhosts, visited_waypoints, vehicleMission,
                   otherVars>>

\* Lines 172-184: the heartbeat thread, then the listener thread.
ConnectStart ==
    /\ op = "connect"
    /\ opPc = "start"
    /\ heartbeats' = heartbeats + 1
    /\ listeners' = listeners + 1
    /\ op' = "idle"
    /\ opPc' = "none"
    /\ out' = {"start_heartbeat", "start_listener", "ret_connect"}
    /\ touch' = "none"
    /\ UNCHANGED <<vehicle, stop_threads, lock, last_telemetry, smPc, want,
                   elapsed, armGhosts, missionFields, otherVars>>

\* ---- disconnect_vehicle (lines 245-271)
DisconnectCall ==
    /\ op = "idle"
    /\ IF IsConnected
       THEN /\ stop_threads' = TRUE
            /\ op' = "disconnect"
            /\ opPc' = "join"
            /\ out' = {"call_disconnect"}
       ELSE /\ out' = {"call_disconnect", "say_not_connected"}
            /\ UNCHANGED <<stop_threads, op, opPc>>
    /\ touch' = "none"
    /\ UNCHANGED <<vehicle, listeners, heartbeats, lock, last_telemetry,
                   smPc, want, elapsed, armGhosts, missionFields, otherVars>>

\* Lines 253-265: the joins, each returning when its thread has ended or
\* after 2 s.
DisconnectJoin ==
    /\ op = "disconnect"
    /\ opPc = "join"
    /\ opPc' = "close"
    /\ out' = {"join"}
    /\ touch' = "none"
    /\ UNCHANGED <<workerVars, lock, last_telemetry, op, smPc, want,
                   elapsed, armGhosts, missionFields, otherVars>>

\* Lines 267-270
DisconnectClose ==
    /\ op = "disconnect"
    /\ opPc = "close"
    /\ vehicle' = "none"
    /\ op' = "idle"
    /\ opPc' = "none"
    /\ out' = {"close", "say_disconnected"}
    /\ touch' = "none"
    /\ UNCHANGED <<stop_threads, listeners, heartbeats, lock, last_telemetry,
                   smPc, want, elapsed, armGhosts, missionFields, otherVars>>

\* ---- set_mode (lines 349-411)
\* The test of lines 381-384, the custom-mode-enabled bit left out
ModeConfirmedIgnoringFlag(t, m) == t.custom_mode = m

\* Lines 381-384: custom_mode and flight_mode are known, custom_mode is the
\* mode asked for and base_mode has MAV_MODE_FLAG_CUSTOM_MODE_ENABLED.
ModeConfirmed(t, m) ==
    /\ t # NoTelemetry
    /\ t.custom_mode = m
    /\ t.enabled

\* Lines 351-376: not connected, or no FlightMode: False; else the command
\* goes out and the wait begins.
SetModeCall(m) ==
    /\ op = "idle"
    /\ IF IsConnected /\ m \in Modes
       THEN /\ op' = "set_mode"
            /\ opPc' = "wait"
            /\ smPc' = "poll"
            /\ want' = m
            /\ elapsed' = 0
            /\ out' = {"call_set_mode", "send_set_mode"}
       ELSE /\ out' = {"call_set_mode", "ret_set_mode_fail"}
            /\ UNCHANGED callVars
    /\ touch' = "none"
    /\ UNCHANGED <<workerVars, lock, last_telemetry, armGhosts,
                   missionFields, otherVars>>

\* set_mode returns r: to its caller, or to arm (lines 454-461), which goes
\* on to send the arm command or returns False.
SetModeReturn(r) ==
    /\ smPc' = "off"
    /\ IF op = "arm"
       THEN IF r = "ok"
            THEN /\ opPc' = "send"
                 /\ armSaw' = last_telemetry.custom_mode
                 /\ out' = {"ret_set_mode_ok"}
                 /\ UNCHANGED op
            ELSE /\ op' = "idle"
                 /\ opPc' = "none"
                 /\ out' = {"ret_set_mode_fail", "ret_arm_fail"}
                 /\ UNCHANGED armSaw
       ELSE /\ op' = "idle"
            /\ opPc' = "none"
            /\ out' = {IF r = "ok" THEN "ret_set_mode_ok"
                                   ELSE "ret_set_mode_fail"}
            /\ UNCHANGED armSaw

\* Lines 377-390 and 392-411: one turn of the loop, reading the snapshot
\* under the lock, or past the timeout the diagnostics and False.
SetModePoll ==
    /\ smPc = "poll"
    /\ lock = "free"
    /\ IF elapsed < SET_MODE_TIMEOUT
       THEN IF ModeConfirmed(last_telemetry, want)
            THEN SetModeReturn("ok")
            ELSE /\ smPc' = "sleep"
                 /\ out' = {}
                 /\ UNCHANGED <<op, opPc, armSaw>>
       ELSE SetModeReturn("fail")
    /\ touch' = "locked"
    /\ UNCHANGED <<workerVars, lock, last_telemetry, want, elapsed,
                   armSent, switches, missionFields, otherVars>>

\* time.sleep(0.2) (line 390), the clock advancing by dt
SetModeSleep(dt) ==
    /\ smPc = "sleep"
    /\ smPc' = "poll"
    /\ elapsed' = Min(elapsed + dt, SET_MODE_TIMEOUT)
    /\ out' = {}
    /\ touch' = "none"
    /\ UNCHANGED <<workerVars, lock, last_telemetry, op, opPc, want,
                   armGhosts, missionFields, otherVars>>

\* ---- arm (lines 440-489)
\* `current_mode != FlightMode.GUIDED.value` (line 454), mutated
NeedsGuidedNever(mode) == FALSE

\* Line 454
NeedsGuided(mode) == mode # "GUIDED"

\* Lines 442-444
ArmCall ==
    /\ op = "idle"
    /\ IF IsConnected
       THEN /\ op' = "arm"
            /\ opPc' = "read"
            /\ out' = {"call_arm"}
       ELSE /\ out' = {"call_arm", "ret_arm_fail"}
            /\ UNCHANGED <<op, opPc>>
    /\ armSaw' = "None"
    /\ armSent' = FALSE
    /\ switches' = 0
    /\ touch' = "none"
    /\ UNCHANGED <<workerVars, lock, last_telemetry, smPc, want, elapsed,
                   missionFields, otherVars>>

\* Lines 446-461: already armed: True; else the mode is read and, when it is
\* not GUIDED, set_mode(GUIDED) is called.
ArmRead ==
    /\ op = "arm"
    /\ opPc = "read"
    /\ lock = "free"
    /\ touch' = "locked"
    /\ IF last_telemetry.armed
       THEN /\ op' = "idle"
            /\ opPc' = "none"
            /\ out' = {"ret_arm_ok"}
            /\ UNCHANGED <<smPc, want, elapsed, armSaw, switches>>
       ELSE /\ armSaw' = last_telemetry.custom_mode
            /\ IF NeedsGuided(last_telemetry.custom_mode)
               THEN /\ opPc' = "switch"
                    /\ smPc' = "poll"
                    /\ want' = "GUIDED"
                    /\ elapsed' = 0
                    /\ switches' = switches + 1
                    /\ out' = {"send_set_mode"}
               ELSE /\ opPc' = "send"
                    /\ out' = {}
                    /\ UNCHANGED <<smPc, want, elapsed, switches>>
            /\ UNCHANGED op
    /\ UNCHANGED <<workerVars, lock, last_telemetry, armSent,
                   missionFields, otherVars>>

\* Lines 463-476: the arm command
ArmSend ==
    /\ op = "arm"
    /\ opPc = "send"
    /\ opPc' = "poll"
    /\ elapsed' = 0
    /\ armSent' = TRUE
    /\ out' = {"send_arm"}
    /\ touch' = "none"
    /\ UNCHANGED <<workerVars, lock, last_telemetry, op, smPc, want,
                   armSaw, switches, missionFields, otherVars>>

\* Lines 479-489: one turn of the wait for the armed bit
ArmPoll ==
    /\ op = "arm"
    /\ opPc = "poll"
    /\ lock = "free"
    /\ IF elapsed < ARM_TIMEOUT
       THEN /\ touch' = "locked"
            /\ IF last_telemetry.armed
               THEN /\ op' = "idle"
                    /\ opPc' = "none"
                    /\ out' = {"ret_arm_ok"}
               ELSE /\ opPc' = "sleep"
                    /\ out' = {}
                    /\ UNCHANGED op
       ELSE /\ touch' = "none"
            /\ op' = "idle"
            /\ opPc' = "none"
            /\ out' = {"ret_arm_fail"}
    /\ UNCHANGED <<workerVars, lock, last_telemetry, smPc, want, elapsed,
                   armGhosts, missionFields, otherVars>>

\* time.sleep(0.2) (line 485), the clock advancing by dt
ArmSleep(dt) ==
    /\ op = "arm"
    /\ opPc = "sleep"
    /\ opPc' = "poll"
    /\ elapsed' = Min(elapsed + dt, ARM_TIMEOUT)
    /\ out' = {}
    /\ touch' = "none"
    /\ UNCHANGED <<workerVars, lock, last_telemetry, op, smPc, want,
                   armGhosts, missionFields, otherVars>>

\* ---- the mission routes (routes/vehicle.py)
\* clear_vehicle_mission calls clear_mission (vehicle.py lines 569-583): the
\* clear command goes out and recv_match waits for the MISSION_ACK.
ClearMissionCall ==
    /\ op = "idle"
    /\ IF IsConnected
       THEN /\ op' = "clear_mission"
            /\ opPc' = "ack"
            /\ out' = {"call_clear_mission", "send_mission_clear_all"}
       ELSE /\ out' = {"call_clear_mission", "ret_clear_mission_fail"}
            /\ UNCHANGED <<op, opPc>>
    /\ touch' = "none"
    /\ UNCHANGED <<workerVars, lock, last_telemetry, smPc, want, elapsed,
                   armGhosts, missionFields, otherVars>>

\* vehicle.py lines 584-596 and routes/vehicle.py lines 242-247: with the
\* clear accepted the route resets the mission data, outside the lock.
ClearMissionAck(acked) ==
    /\ op = "clear_mission"
    /\ opPc = "ack"
    /\ op' = "idle"
    /\ opPc' = "none"
    /\ IF acked
       THEN /\ vehicleMission' = 0
            /\ mission_waypoints' = {}
            /\ visited_waypoints' = {}
            /\ current_waypoint_seq' = 0
            /\ out' = {"ret_clear_mission_ok"}
            /\ touch' = "bare"
       ELSE /\ out' = {"ret_clear_mission_fail"}
            /\ touch' = "none"
            /\ UNCHANGED missionFields
    /\ UNCHANGED <<workerVars, lock, last_telemetry, smPc, want, elapsed,
                   armGhosts, otherVars>>

\* reset_mission_progress (routes/vehicle.py lines 210-232)
ResetProgressCall ==
    /\ op = "idle"
    /\ visited_waypoints' = {}
    /\ current_waypoint_seq' = 0
    /\ out' = {"call_reset_progress"}
    /\ touch' = "bare"
    /\ UNCHANGED <<workerVars, lock, last_telemetry, callVars, armGhosts,
                   mission_waypoints, vehicleMission, otherVars>>

\* The calling context is inside a receive of the transport: wait_heartbeat
\* and the recv_match of fetch_mission_waypoints and of clear_mission.
ConnectReadsWire == op = "connect" /\ opPc \in {"heartbeat", "fetch"}

MissionOpReadsWire == op = "clear_mission" /\ opPc = "ack"

\* A listener thread is in its loop.
ListenerRunning == listeners > 0

CmdNext ==
    \/ ListenerReceive
    \/ \E hb \in Heartbeats \cup {last_telemetry} : ListenerUpdate(hb)
    \/ ListenerExit
    \/ HeartbeatSend
    \/ HeartbeatExit
    \/ ConnectCall
    \/ \E got \in BOOLEAN : ConnectHeartbeat(got)
    \/ \E count \in BOOLEAN, got \in SUBSET Indices : ConnectFetch(count, got)
    \/ ConnectStart
    \/ DisconnectCall
    \/ DisconnectJoin
    \/ DisconnectClose
    \/ \E m \in Modes \cup {"invalid"} : SetModeCall(m)
    \/ SetModePoll
    \/ \E dt \in {0, Quantum} : SetModeSleep(dt)
    \/ ArmCall
    \/ ArmRead
    \/ ArmSend
    \/ ArmPoll
    \/ \E dt \in {0, Quantum} : ArmSleep(dt)
    \/ ClearMissionCall
    \/ \E acked \in BOOLEAN : ClearMissionAck(acked)
    \/ ResetProgressCall

(***************************************************************************)
(* The survey service called on its own: resume_survey and the two survey  *)
(* executions (services/survey_service.py), the drone seen through the     *)
(* methods the service calls on it.                                        *)
(***************************************************************************)
\* altitude_threshold = 2.0, metres (line 134)
ALTITUDE_THRESHOLD == 2

\* The relative altitudes, in metres, of the snapshots a call can get.
Altitudes == {0, 1, 2, 30}

\* What Vehicle.position() can return to resume_survey: the keys of the
\* snapshot that matter to it (models/vehicle.py lines 62-93; until the
\* first heartbeat armed is None, which line 124 takes as not armed).
Snapshots == [armed : BOOLEAN, relative_altitude : Altitudes]

\* dict.get(key, default)
Get(d, key, default) == IF key \in DOMAIN d THEN d[key] ELSE default

\* The key resume_survey reads the altitude under (line 118).
AltitudeKey == "relative_alt"

\* The methods class Vehicle of models/vehicle.py defines.
VehicleMethods ==
    {"build_connection_string", "go_to_location", "connect_vehicle",
     "disconnect_vehicle", "set_site_name",
     "load_previous_visited_waypoints", "fetch_mission_waypoints",
     "set_mode", "follow_target", "arm", "disarm", "takeoff",
     "clear_mission", "upload_mission", "is_mission_complete",
     "get_current_telemetry", "get_waypoint_visit_status", "position",
     "start_telemetry_stream"}

\* The parameters of Vehicle.set_mode(self, mode_id) (line 349).
SetModeParams == {"mode_id"}

\* A call of set_mode with these keyword arguments binds.
SetModeAccepts(keywords) == keywords \subseteq SetModeParams

SurveyInit ==
    /\ svcCall = "none"
    /\ svcPc = "idle"
    /\ position_data = [armed |-> FALSE, relative_altitude |-> 0]
    /\ svcCalls = <<>>
    /\ svcResult = "none"
    /\ is_paused = FALSE
    /\ survey_in_progress = FALSE

\* What the calls of the survey service leave alone: the coordination
\* service but for survey_abandoned, and the link.
coordKept == <<is_active, is_following, survey_mode_detected,
               last_survey_mode_state, survey_button_enabled,
               survey_initiated_by_user, stop_event, proxAge, curThread,
               pc, is_surveying, distance, branch, seqOk, tickSent, resume,
               evaluated, apiPc, sent, emitted, surveyRunning>>

besideSurvey == <<survey_mission_complete, last_waypoint_seq,
                  reachedSinceUpload, linkVars, genVars, pushVars,
                  refetchVars>>

\* The call returns or raises.
SvcEnds(result) ==
    /\ svcResult' = result
    /\ svcPc' = "idle"

\* The call calls method m of the drone.
SvcCalls(m) == svcCalls' = Append(svcCalls, m)

\* resume_survey up to the snapshot it decides on (lines 87-121); drone:
\* the vehicle service has a drone.
ResumeBegin(drone, snap) ==
    /\ svcPc = "idle"
    /\ svcCall' = "resume"
    /\ svcCalls' = <<>>
    /\ IF ~drone
       THEN /\ SvcEnds("False")
            /\ UNCHANGED position_data
       ELSE /\ position_data' = snap
            /\ svcResult' = "none"
            /\ svcPc' = "r_arm"
    /\ UNCHANGED <<is_paused, survey_in_progress, survey_abandoned>>
    /\ UNCHANGED <<coordKept, besideSurvey>>

\* is_armed = position_data.get("armed", False) (line 117)
is_armed == Get(position_data, "armed", FALSE)

\* current_altitude = position_data.get("relative_alt", 0) (line 118)
current_altitude == Get(position_data, AltitudeKey, 0)

\* if not is_armed: arm (lines 123-131); ok: arm() succeeds.
ResumeArm(ok) ==
    /\ svcPc = "r_arm"
    /\ IF ~is_armed
       THEN /\ SvcCalls("arm")
            /\ IF ok
               THEN /\ svcPc' = "r_takeoff"
                    /\ UNCHANGED svcResult
               ELSE SvcEnds("False")
       ELSE /\ svcPc' = "r_takeoff"
            /\ UNCHANGED <<svcCalls, svcResult>>
    /\ UNCHANGED <<svcCall, position_data, is_paused, survey_in_progress,
                   survey_abandoned>>
    /\ UNCHANGED <<coordKept, besideSurvey>>

\* if current_altitude < altitude_threshold: take off, and disarm if that
\* fails (lines 133-145); ok: takeoff() succeeds.
ResumeTakeoff(ok) ==
    /\ svcPc = "r_takeoff"
    /\ IF current_altitude < ALTITUDE_THRESHOLD
       THEN IF ok
            THEN /\ SvcCalls("takeoff")
                 /\ svcPc' = "r_mode"
                 /\ UNCHANGED svcResult
            ELSE /\ svcCalls' = svcCalls \o <<"takeoff", "disarm">>
                 /\ SvcEnds("False")
       ELSE /\ svcPc' = "r_mode"
            /\ UNCHANGED <<svcCalls, svcResult>>
    /\ UNCHANGED <<svcCall, position_data, is_paused, survey_in_progress,
                   survey_abandoned>>
    /\ UNCHANGED <<coordKept, besideSurvey>>

\* set_mode(FlightMode.AUTO, pause_mission=False) and, if it returns
\* False, set_mode(FlightMode.AUTO) (lines 147-180). set_mode takes no
\* pause_mission: the first call raises TypeError before anything is sent.
ResumeMode(ok, okFallback) ==
    /\ svcPc = "r_mode"
    /\ IF ~SetModeAccepts({"pause_mission"})
       THEN /\ SvcEnds("TypeError")
            /\ UNCHANGED <<svcCalls, is_paused>>
       ELSE /\ svcCalls' = IF ok THEN Append(svcCalls, "set_mode")
                           ELSE svcCalls \o <<"set_mode", "set_mode">>
            /\ is_paused' = IF ok \/ okFallback THEN FALSE ELSE is_paused
            /\ SvcEnds(IF ok \/ okFallback THEN "True" ELSE "False")
    /\ UNCHANGED <<svcCall, position_data, survey_in_progress,
                   survey_abandoned>>
    /\ UNCHANGED <<coordKept, besideSurvey>>

\* execute_lawnmower_scan (lines 280-328) and execute_proximity_survey
\* (lines 434-498) up to the mission they built; drone, car: the vehicle
\* service has them; located: the drone's snapshot has a latitude.
ExecBegin(kind, drone, car, located) ==
    /\ svcPc = "idle"
    /\ svcCall' = kind
    /\ svcCalls' = <<>>
    /\ survey_abandoned' = FALSE
    /\ is_paused' = IF kind = "lawnmower" THEN FALSE ELSE is_paused
    /\ IF ~drone \/ ~car \/ (kind = "proximity" /\ ~located)
       THEN /\ SvcEnds("False")
            /\ survey_in_progress' =
                   IF kind = "lawnmower" THEN FALSE ELSE survey_in_progress
       ELSE /\ svcResult' = "none"
            /\ svcPc' = "x_upload"
            /\ survey_in_progress' =
                   IF kind = "lawnmower" THEN TRUE ELSE survey_in_progress
    /\ UNCHANGED position_data
    /\ UNCHANGED <<coordKept, besideSurvey>>

\* A return False of an execution: the lawnmower scan clears
\* survey_in_progress first.
ExecFails ==
    /\ SvcEnds("False")
    /\ survey_in_progress' =
           IF svcCall = "lawnmower" THEN FALSE ELSE survey_in_progress

\* drone_vehicle.upload_mission(waypoint_objects) (lines 330-335, 500-505)
ExecUpload(ok) ==
    /\ svcPc = "x_upload"
    /\ SvcCalls("upload_mission")
    /\ IF ok
       THEN /\ svcPc' = "x_mode"
            /\ UNCHANGED <<svcResult, survey_in_progress>>
       ELSE ExecFails
    /\ UNCHANGED <<svcCall, position_data, is_paused, survey_abandoned>>
    /\ UNCHANGED <<coordKept, besideSurvey>>

\* drone_vehicle.set_mode(FlightMode.AUTO) (lines 343-346, 510-512): with
\* it the drone starts to fly the mission.
ExecMode(ok) ==
    /\ svcPc = "x_mode"
    /\ SvcCalls("set_mode")
    /\ IF ok
       THEN /\ svcPc' = "x_start"
            /\ UNCHANGED <<svcResult, survey_in_progress>>
       ELSE ExecFails
    /\ UNCHANGED <<svcCall, position_data, is_paused, survey_abandoned>>
    /\ UNCHANGED <<coordKept, besideSurvey>>

\* drone_vehicle.start_mission() (lines 348, 515): Vehicle defines no such
\* method, the attribute lookup raises AttributeError and the execution
\* ends there, the poll loop of lines 355-405 not entered.
ExecStart(ok) ==
    /\ svcPc = "x_start"
    /\ IF "start_mission" \notin VehicleMethods
       THEN /\ SvcEnds("AttributeError")
            /\ UNCHANGED <<svcCalls, survey_in_progress>>
       ELSE /\ SvcCalls("start_mission")
            /\ IF ~ok
               THEN ExecFails
               ELSE /\ UNCHANGED survey_in_progress
                    /\ IF svcCall = "proximity"
                       THEN SvcEnds("None")
                       ELSE /\ svcPc' = "x_poll"
                            /\ UNCHANGED svcResult
    /\ UNCHANGED <<svcCall, position_data, is_paused, survey_abandoned>>
    /\ UNCHANGED <<coordKept, besideSurvey>>

SurveyNext ==
    \/ \E drone \in BOOLEAN, snap \in Snapshots : ResumeBegin(drone, snap)
    \/ \E ok \in BOOLEAN : ResumeArm(ok)
    \/ \E ok \in BOOLEAN : ResumeTakeoff(ok)
    \/ \E ok, okFallback \in BOOLEAN : ResumeMode(ok, okFallback)
    \/ \E kind \in {"lawnmower", "proximity"}, drone, car, located \in BOOLEAN :
          ExecBegin(kind, drone, car, located)
    \/ \E ok \in BOOLEAN : ExecUpload(ok)
    \/ \E ok \in BOOLEAN : ExecMode(ok)
    \/ \E ok \in BOOLEAN : ExecStart(ok)

(***************************************************************************)
(* The waypoint generators of the survey service                           *)
(* (_generate_lawnmower_waypoints, lines 235-268, and                      *)
(* _generate_constrained_lawnmower_waypoints, lines 519-576). Lengths are  *)
(* whole metres. A waypoint is kept as the offsets from the center it is   *)
(* computed from, its latitude being the center's plus yr / 111320 and     *)
(* its longitude the center's plus xr / (111320 * cos(latitude)) (lines    *)
(* 226-233).                                                               *)
(***************************************************************************)
\* CONFIG.survey (config.py lines 109-113), metres
SWATH_WIDTH == 50
PATTERN_LENGTH == 1000
MAX_RADIUS == 500

\* The configurations and the headings the free generator is run with,
\* the shipped configuration among them; the headings are the ones whose
\* sine and cosine are whole numbers.
SwathWidths == {SWATH_WIDTH, 7, 30, 300, 1200}
Radii == {MAX_RADIUS, 10, 100}
PatternLengths == {PATTERN_LENGTH, 40}
Headings == {0, 90, 180, 270}

\* The radii the constrained generator is run with, and where its center
\* is: FarFromPole, or the distance in metres from the center to the pole
\* for a center next to it.
MaxDistances == {0, 30, 100, 500, 1000}
FarFromPole == 0
PoleDistances == {FarFromPole, 600}

FreeInputs ==
    [kind : {"free"}, swath_width : SwathWidths, max_radius : Radii,
     pattern_length : PatternLengths, heading_deg : Headings,
     max_distance : {0}, pole : {FarFromPole}]

ConstrainedInputs ==
    [kind : {"constrained"}, swath_width : {SWATH_WIDTH},
     max_radius : {MAX_RADIUS}, pattern_length : {PATTERN_LENGTH},
     heading_deg : {0}, max_distance : MaxDistances, pole : PoleDistances]

GenInputs == FreeInputs \cup ConstrainedInputs

\* No generator is called: the shipped configuration, nothing returned.
GenInit ==
    /\ genIn = [kind |-> "none", swath_width |-> SWATH_WIDTH,
                max_radius |-> MAX_RADIUS,
                pattern_length |-> PATTERN_LENGTH, heading_deg |-> 0,
                max_distance |-> 0, pole |-> FarFromPole]
    /\ genPc = "ready"
    /\ genOut = <<>>

\* A generator is about to be called with arguments and a configuration
\* out of GenInputs.
GenCallInit ==
    /\ genIn \in GenInputs
    /\ genPc = "ready"
    /\ genOut = <<>>

\* math.cos and math.sin of a right angle given in degrees
Cos(deg) == CASE deg = 0 -> 1 [] deg = 90 -> 0 [] deg = 180 -> -1
              [] deg = 270 -> 0

Sin(deg) == CASE deg = 0 -> 0 [] deg = 90 -> 1 [] deg = 180 -> 0
              [] deg = 270 -> -1

\* num_stripes = int(width / swath_width) (lines 242, 540), width >= 0
NumStripes(width, swath_width) == width \div swath_width

\* Faulty variant: no stripe is turned round.
SwapNever(i) == FALSE

\* if i % 2 != 0: x_start, x_end = x_end, x_start (lines 250-251, 545-546)
SwapStripe(i) == i % 2 # 0

\* The two x offsets of stripe i, in the order the waypoints are made
\* (lines 246-253, 544-548).
StripeEnds(i, length) ==
    IF SwapStripe(i) THEN <<length \div 2, -(length \div 2)>>
    ELSE <<-(length \div 2), length \div 2>>

\* The stripe and the end of the j-th waypoint made.
StripeOf(j) == (j - 1) \div 2

EndOf(j) == ((j - 1) % 2) + 1

\* The waypoint of the free generator at pattern offsets x, y, turned by
\* the pattern angle (lines 254-267).
Rotated(x, y, angle_deg) ==
    [x_offset |-> x, y_offset |-> y,
     xr |-> x * Cos(angle_deg) - y * Sin(angle_deg),
     yr |-> x * Sin(angle_deg) + y * Cos(angle_deg)]

\* _generate_lawnmower_waypoints (lines 235-268)
LawnmowerWaypoints(in) ==
    LET pattern_angle == (in.heading_deg + 90) % 360
        num_stripes == NumStripes(in.max_radius * 2, in.swath_width)
    IN  [j \in 1..(2 * (num_stripes + 1)) |->
            Rotated(StripeEnds(StripeOf(j), in.pattern_length)[EndOf(j)],
                    -in.max_radius + StripeOf(j) * in.swath_width,
                    pattern_angle)]

\* side_length = max_distance * math.sqrt(2) * 0.99 (line 529); the factor
\* is 1.40007...
SideLength(max_distance) == (max_distance * 140007) \div 100000

\* The waypoint of the constrained generator at pattern offsets x, y: it
\* is not turned (lines 549-555).
Straight(x, y) == [x_offset |-> x, y_offset |-> y, xr |-> x, yr |-> y]

\* The points the constrained generator computes, in order (lines 529-555).
CandidatePoints(in) ==
    LET side_length == SideLength(in.max_distance)
        pattern_length == Min(in.pattern_length, side_length)
        pattern_width == Min(in.max_radius * 2, side_length)
        num_stripes == NumStripes(pattern_width, in.swath_width)
    IN  [j \in 1..(2 * (num_stripes + 1)) |->
            Straight(StripeEnds(StripeOf(j), pattern_length)[EndOf(j)],
                     -(pattern_width \div 2) + StripeOf(j) * in.swath_width)]

\* The square of the distance from the center to the waypoint, up to the
\* factor of DistanceScale: what calculate_distance (lines 182-194)
\* returns for the latitude and longitude _meters_to_latlon_offset (lines
\* 226-233) made of the offsets. The offset to the north comes back as it
\* is; the offset to the east was divided by the cosine of the center's
\* latitude and comes back multiplied by the root of the product of
\* that cosine and the waypoint's, so its square comes back multiplied by
\* cos(waypoint latitude) / cos(center latitude): 1 far from the pole,
\* (pole - yr) / pole next to it.
FromCenterSq(wp, pole) ==
    IF pole = FarFromPole THEN wp.yr * wp.yr + wp.xr * wp.xr
    ELSE wp.yr * wp.yr + (wp.xr * wp.xr * (pole - wp.yr)) \div pole

\* A metre of offset is 1 / 111320 degree of latitude (line 231) and comes
\* back as EARTH_RADIUS_METERS * pi / 180 / 111320 = 0.99888 metre, in
\* thousandths of the square: 0.998 (config.py line 63).
DistanceScale == 998

\* Faulty variant: every point computed is kept.
WithinAlways(wp, in) == TRUE

\* if distance_from_center <= max_distance (line 563)
WithinConstraint(wp, in) ==
    DistanceScale * FromCenterSq(wp, in.pole)
        <= 1000 * in.max_distance * in.max_distance

\* _generate_constrained_lawnmower_waypoints (lines 519-576)
ConstrainedWaypoints(in) ==
    LET Kept(wp) == WithinConstraint(wp, in)
    IN  SelectSeq(CandidatePoints(in), Kept)

besideGen == <<coordVars, survey_mission_complete, last_waypoint_seq,
               reachedSinceUpload, linkVars, surveyVars, pushVars,
               refetchVars>>

\* A call of _generate_lawnmower_waypoints
GenerateLawnmower ==
    /\ genPc = "ready"
    /\ genIn.kind = "free"
    /\ genOut' = LawnmowerWaypoints(genIn)
    /\ genPc' = "done"
    /\ UNCHANGED <<genIn, besideGen>>

\* A call of _generate_constrained_lawnmower_waypoints
GenerateConstrained ==
    /\ genPc = "ready"
    /\ genIn.kind = "constrained"
    /\ genOut' = ConstrainedWaypoints(genIn)
    /\ genPc' = "done"
    /\ UNCHANGED <<genIn, besideGen>>

GenNext ==
    \/ GenerateLawnmower
    \/ GenerateConstrained

(***************************************************************************)
(* The telemetry push thread of a link (models/vehicle.py lines 1009-1055) *)
(* with what starts it (services/vehicle_service.py lines 50-96), the      *)
(* heartbeats the listener records and the clock.                          *)
(***************************************************************************)
\* if time_since_heartbeat < 10.0 (line 1042), seconds
HEARTBEAT_MAX_AGE == 10

\* The clock stops here.
MaxClock == 13

PushInit ==
    /\ clock = 1
    /\ heartbeat_timestamp = None
    /\ callbacks = FALSE
    /\ telemetry_callback = FALSE
    /\ pushPc = "none"
    /\ telemetry = None
    /\ forwarded = FALSE

\* What the push thread and the calls around it leave alone.
besidePush == <<coordVars, survey_mission_complete, last_waypoint_seq,
                reachedSinceUpload, mission_waypoints, visited_waypoints,
                current_waypoint_seq, visitTimers, vehicleMission, upPc,
                upImpl, upN, upIdx, upSent, upResult, lastReq, upWrong,
                upAcked, pre, fetchPc, listeners, heartbeats, lock,
                last_telemetry, op, opPc, smPc, want, elapsed, out, touch,
                armSaw, armSent, switches, surveyVars, genVars,
                refetchVars>>

\* start_telemetry_stream (lines 1009-1024): nothing if the thread is
\* alive, else the callback set and a thread started.
StartTelemetryStream ==
    IF pushPc # "none"
    THEN UNCHANGED <<telemetry_callback, pushPc>>
    ELSE /\ telemetry_callback' = TRUE
         /\ pushPc' = "head"

\* VehicleService.connect_vehicle (lines 50-69) with the connect_vehicle
\* of the link (lines 134-184): the transport opened, the stop flag
\* cleared, the stream started if a callback is registered.
PushConnect ==
    /\ vehicle = "none"
    /\ vehicle' = "open"
    /\ stop_threads' = FALSE
    /\ IF callbacks THEN StartTelemetryStream
       ELSE UNCHANGED <<telemetry_callback, pushPc>>
    /\ forwarded' = FALSE
    /\ UNCHANGED <<clock, heartbeat_timestamp, callbacks, telemetry>>
    /\ UNCHANGED besidePush

\* VehicleService.register_telemetry_callback (lines 84-96)
RegisterCallback ==
    /\ callbacks' = TRUE
    /\ IF vehicle # "none" THEN StartTelemetryStream
       ELSE UNCHANGED <<telemetry_callback, pushPc>>
    /\ forwarded' = FALSE
    /\ UNCHANGED <<vehicle, stop_threads, clock, heartbeat_timestamp,
                   telemetry>>
    /\ UNCHANGED besidePush

\* disconnect_vehicle (lines 245-271): the stop flag set, the threads
\* joined for 2 s each, the transport closed.
PushDisconnect ==
    /\ vehicle # "none"
    /\ stop_threads' = TRUE
    /\ vehicle' = "none"
    /\ forwarded' = FALSE
    /\ UNCHANGED <<clock, heartbeat_timestamp, callbacks,
                   telemetry_callback, pushPc, telemetry>>
    /\ UNCHANGED besidePush

\* The listener records a HEARTBEAT (line 795).
HeartbeatRecorded ==
    /\ vehicle # "none"
    /\ ~stop_threads
    /\ heartbeat_timestamp' = clock
    /\ forwarded' = FALSE
    /\ UNCHANGED <<vehicle, stop_threads, clock, callbacks,
                   telemetry_callback, pushPc, telemetry>>
    /\ UNCHANGED besidePush

\* A second passes.
SecondPasses ==
    /\ clock < MaxClock
    /\ clock' = clock + 1
    /\ forwarded' = FALSE
    /\ UNCHANGED <<vehicle, stop_threads, heartbeat_timestamp, callbacks,
                   telemetry_callback, pushPc, telemetry>>
    /\ UNCHANGED besidePush

\* The head of the loop (lines 1028-1031): the thread ends on the stop
\* flag, sleeps without a transport or a callback, else goes on.
PushHead ==
    /\ pushPc = "head"
    /\ pushPc' = IF stop_threads THEN "none"
                 ELSE IF ~(vehicle # "none" /\ telemetry_callback)
                      THEN "sleep"
                      ELSE "read"
    /\ forwarded' = FALSE
    /\ UNCHANGED <<vehicle, stop_threads, clock, heartbeat_timestamp,
                   callbacks, telemetry_callback, telemetry>>
    /\ UNCHANGED besidePush

\* telemetry = self.get_current_telemetry() (line 1033)
PushRead ==
    /\ pushPc = "read"
    /\ telemetry' = heartbeat_timestamp
    /\ pushPc' = "test"
    /\ forwarded' = FALSE
    /\ UNCHANGED <<vehicle, stop_threads, clock, heartbeat_timestamp,
                   callbacks, telemetry_callback>>
    /\ UNCHANGED besidePush

\* if heartbeat_timestamp (line 1037): neither None nor 0
Truthy(timestamp) == timestamp # None /\ timestamp # 0

\* Faulty variant: the age of the heartbeat is not looked at.
RecentAlways(time_since_heartbeat) == TRUE

\* if time_since_heartbeat < 10.0 (line 1042)
Recent(time_since_heartbeat) == time_since_heartbeat < HEARTBEAT_MAX_AGE

\* The clock read, the two tests and the callback (lines 1036-1051).
PushForward ==
    /\ pushPc = "test"
    /\ forwarded' = (Truthy(telemetry) /\ Recent(clock - telemetry))
    /\ pushPc' = "sleep"
    /\ UNCHANGED <<vehicle, stop_threads, clock, heartbeat_timestamp,
                   callbacks, telemetry_callback, telemetry>>
    /\ UNCHANGED besidePush

\* time.sleep(0.5) or time.sleep(0.1) (lines 1030, 1055)
PushSleep ==
    /\ pushPc = "sleep"
    /\ pushPc' = "head"
    /\ forwarded' = FALSE
    /\ UNCHANGED <<vehicle, stop_threads, clock, heartbeat_timestamp,
                   callbacks, telemetry_callback, telemetry>>
    /\ UNCHANGED besidePush

PushNext ==
    \/ PushConnect
    \/ RegisterCallback
    \/ PushDisconnect
    \/ HeartbeatRecorded
    \/ SecondPasses
    \/ PushHead
    \/ PushRead
    \/ PushForward
    \/ PushSleep

(***************************************************************************)
(* A connected link message by message: its listener thread, which takes   *)
(* whatever the transport has (line 233), and Vehicle.upload_mission       *)
(* (lines 615-729) called from another context with the                    *)
(* fetch_mission_waypoints it ends with (line 718, lines 302-347), which    *)
(* receive from the same transport and take no lock.  The autopilot        *)
(* answers every message of the handshake at once and once.  The positions *)
(* the listener takes are beyond the visit threshold of every waypoint and *)
(* no visit timer runs, so that the body of the loop of lines 917-950       *)
(* changes nothing.                                                        *)
(***************************************************************************)
\* No iteration of line 917 is under way.
NoIter == [used |-> None, left |-> 0, stale |-> FALSE]

\* The messages of the handshake.
NoMsg == [type |-> "none", seq |-> None]
MissionAck == [type |-> "MISSION_ACK", seq |-> None]
MissionRequest(i) == [type |-> "MISSION_REQUEST", seq |-> i]

RefetchInit ==
    /\ iterating = NoIter
    /\ fetchIdx = 0
    /\ wire = NoMsg

\* The link after a connect_vehicle that got its heartbeat (lines 134-184):
\* the transport stored, one heartbeat thread and one listener thread.
ConnectedInit ==
    /\ vehicle = "open"
    /\ stop_threads = FALSE
    /\ listeners = 1
    /\ heartbeats = 1
    /\ lock = "free"
    /\ last_telemetry = NoTelemetry
    /\ op = "idle"
    /\ opPc = "none"
    /\ smPc = "off"
    /\ want = "None"
    /\ elapsed = 0
    /\ out = {}
    /\ touch = "none"
    /\ armSaw = "None"
    /\ armSent = FALSE
    /\ switches = 0

\* What the steps of this part leave alone.
besideRefetch == <<coordVars, visited_waypoints, current_waypoint_seq,
                   visitTimers, upImpl, lastReq, upWrong, pre, vehicle,
                   stop_threads, heartbeats, last_telemetry, op, opPc,
                   smPc, want, elapsed, out, touch, armSaw, armSent,
                   switches, surveyVars, genVars, pushVars>>

\* What the listener leaves alone of the upload.
uploadVars == <<upPc, upN, upIdx, upSent, upResult, upAcked, vehicleMission,
                survey_mission_complete, last_waypoint_seq,
                reachedSinceUpload>>

\* The listener's recv_match(blocking=True, timeout=1) (line 233) returns
\* the handshake message the transport has; _update_telemetry_state (lines
\* 739-821) has no branch for its type and drops it.
ListenerTakes ==
    /\ listeners > 0
    /\ ~stop_threads
    /\ IsConnected
    /\ lock = "free"
    /\ wire # NoMsg
    /\ wire' = NoMsg
    /\ UNCHANGED <<mission_waypoints, iterating, fetchPc, fetchIdx,
                   listeners, lock, uploadVars, besideRefetch>>

\* upload_mission(waypoints) with n waypoints up to the clear command of
\* clear_mission (lines 617-638, 571-580); the autopilot acknowledges.
HandshakeCall(n) ==
    /\ IsConnected
    /\ upPc = "idle"
    /\ fetchPc = "idle"
    /\ upN' = n
    /\ upIdx' = 0
    /\ upSent' = <<>>
    /\ upResult' = "none"
    /\ upAcked' = FALSE
    /\ upPc' = "clear"
    /\ wire' = MissionAck
    /\ UNCHANGED <<mission_waypoints, iterating, fetchPc, fetchIdx,
                   listeners, lock, vehicleMission,
                   survey_mission_complete, last_waypoint_seq,
                   reachedSinceUpload, besideRefetch>>

\* clear_mission gets its MISSION_ACK (lines 584-590); the completion flag
\* is reset, the last survey waypoint recorded and the count sent (lines
\* 645-670); the autopilot asks for item 0.
HandshakeCleared ==
    /\ upPc = "clear"
    /\ wire = MissionAck
    /\ vehicleMission' = 0
    /\ survey_mission_complete' = FALSE
    /\ last_waypoint_seq' = upN - 1
    /\ reachedSinceUpload' = FALSE
    /\ upPc' = "request"
    /\ wire' = MissionRequest(0)
    /\ UNCHANGED <<mission_waypoints, iterating, fetchPc, fetchIdx,
                   listeners, lock, upN, upIdx, upSent, upResult, upAcked,
                   besideRefetch>>

\* The wait of lines 675-681 gets the MISSION_REQUEST for item upIdx and
\* the item is sent (lines 691-706); the autopilot asks for the next item
\* or, after the last, accepts the mission.
HandshakeItem ==
    /\ upPc = "request"
    /\ wire = MissionRequest(upIdx)
    /\ upSent' = Append(upSent, upIdx)
    /\ upIdx' = upIdx + 1
    /\ upPc' = IF upIdx + 1 = upN THEN "ack" ELSE "request"
    /\ wire' = IF upIdx + 1 = upN THEN MissionAck
               ELSE MissionRequest(upIdx + 1)
    /\ UNCHANGED <<mission_waypoints, iterating, fetchPc, fetchIdx,
                   listeners, lock, upN, upResult, upAcked, vehicleMission,
                   survey_mission_complete, last_waypoint_seq,
                   reachedSinceUpload, besideRefetch>>

\* The wait of lines 709-722 gets the accepting MISSION_ACK: the autopilot
\* holds the mission and the upload goes on to fetch it back (line 718).
HandshakeAccepted ==
    /\ upPc = "ack"
    /\ wire = MissionAck
    /\ vehicleMission' = upN
    /\ upAcked' = TRUE
    /\ upPc' = "fetch"
    /\ wire' = NoMsg
    /\ UNCHANGED <<mission_waypoints, iterating, fetchPc, fetchIdx,
                   listeners, lock, upN, upIdx, upSent, upResult,
                   survey_mission_complete, last_waypoint_seq,
                   reachedSinceUpload, besideRefetch>>

\* A wait of the upload runs out with nothing for it on the transport
\* (lines 595-596 and 639-640, 682-684, 724-725): False.
HandshakeTimeout ==
    /\ upPc \in {"clear", "request", "ack"}
    /\ wire = NoMsg
    /\ upPc' = "done"
    /\ upResult' = "fail"
    /\ UNCHANGED <<mission_waypoints, iterating, fetchPc, fetchIdx, wire,
                   listeners, lock, upN, upIdx, upSent, upAcked,
                   vehicleMission, survey_mission_complete,
                   last_waypoint_seq, reachedSinceUpload, besideRefetch>>

\* self.mission_waypoints is bound to a new, empty dict: an iterator made
\* before goes on over the dict it was made for.
Rebound ==
    /\ mission_waypoints' = {}
    /\ iterating' = IF iterating = NoIter THEN NoIter
                    ELSE [iterating EXCEPT !.stale = TRUE]

\* fetch_mission_waypoints up to line 320: without a MISSION_COUNT in 3 s
\* it returns, and upload_mission returns True (line 719); with one the
\* cache is bound to a new dict.
RefetchBegin(got) ==
    /\ upPc = "fetch"
    /\ fetchPc = "idle"
    /\ IF got
       THEN /\ Rebound
            /\ fetchPc' = "items"
            /\ fetchIdx' = 0
            /\ UNCHANGED <<upPc, upResult>>
       ELSE /\ FetchReturns
            /\ UNCHANGED <<mission_waypoints, iterating, fetchIdx>>
    /\ UNCHANGED <<wire, listeners, lock, upN, upIdx, upSent, upAcked,
                   vehicleMission, survey_mission_complete,
                   last_waypoint_seq, reachedSinceUpload, besideRefetch>>

\* The dict the cache is bound to taking key i (line 331): its size changes,
\* the key being new to it.
Filled(i) == mission_waypoints \cup {i}

\* One turn of the loop of lines 322-336: item i is requested and, when it
\* arrives within 3 s, stored under key i.
RefetchItem(arrived) ==
    /\ fetchPc = "items"
    /\ fetchIdx < vehicleMission
    /\ mission_waypoints' =
          IF arrived THEN Filled(fetchIdx) ELSE mission_waypoints
    /\ fetchIdx' = fetchIdx + 1
    /\ UNCHANGED <<iterating, fetchPc, wire, listeners, lock, uploadVars,
                   besideRefetch>>

\* Lines 338-344: the fetch returns, and upload_mission returns True (line
\* 719).
RefetchEnd ==
    /\ fetchPc = "items"
    /\ fetchIdx = vehicleMission
    /\ FetchReturns
    /\ fetchIdx' = 0
    /\ UNCHANGED <<mission_waypoints, iterating, wire, listeners, lock, upN,
                   upIdx, upSent, upAcked, vehicleMission,
                   survey_mission_complete, last_waypoint_seq,
                   reachedSinceUpload, besideRefetch>>

\* The listener takes a GLOBAL_POSITION_INT (lines 227-238, 753-766) and,
\* holding the lock, enters _check_waypoint_visits: with an empty cache it
\* returns at line 913 and the lock is released; else the iterator over the
\* cache's items is made (line 917).
VisitCheckBegin ==
    /\ listeners > 0
    /\ ~stop_threads
    /\ IsConnected
    /\ lock = "free"
    /\ IF mission_waypoints = {}
       THEN UNCHANGED <<iterating, lock>>
       ELSE /\ iterating' = [used |-> Cardinality(mission_waypoints),
                             left |-> Cardinality(mission_waypoints),
                             stale |-> FALSE]
            /\ lock' = "listener"
    /\ UNCHANGED <<mission_waypoints, fetchPc, fetchIdx, wire, listeners,
                   uploadVars, besideRefetch>>

\* The dict the iterator it was made for has another size than when it
\* was made: the iterator's next step raises RuntimeError.
SizeChanged(it) ==
    /\ ~it.stale
    /\ Cardinality(mission_waypoints) # it.used

\* The loop of lines 917-950 asks its iterator for the next item.  If the
\* size of its dict has changed, the RuntimeError leaves
\* _update_telemetry_state and the `with`, and the listener's `except
\* Exception` prints it and breaks out of the thread's loop (lines
\* 241-243).  Else the body runs for the item, or the loop and the update
\* end with the last item given.
VisitCheckNext ==
    /\ lock = "listener"
    /\ iterating # NoIter
    /\ IF SizeChanged(iterating)
       THEN /\ iterating' = NoIter
            /\ lock' = "free"
            /\ listeners' = listeners - 1
       ELSE IF iterating.left > 0
       THEN /\ iterating' = [iterating EXCEPT !.left = @ - 1]
            /\ UNCHANGED <<lock, listeners>>
       ELSE /\ iterating' = NoIter
            /\ lock' = "free"
            /\ UNCHANGED listeners
    /\ UNCHANGED <<mission_waypoints, fetchPc, fetchIdx, wire, uploadVars,
                   besideRefetch>>

\* The steps of the context that called upload_mission.
UploadSteps ==
    \/ HandshakeCleared
    \/ HandshakeItem
    \/ HandshakeAccepted
    \/ HandshakeTimeout
    \/ \E got \in BOOLEAN : RefetchBegin(got)
    \/ \E arrived \in BOOLEAN : RefetchItem(arrived)
    \/ RefetchEnd

RefetchNext ==
    \/ \E n \in 1..MaxWp : HandshakeCall(n)
    \/ UploadSteps
    \/ UploadReturn
    \/ ListenerTakes
    \/ VisitCheckBegin
    \/ VisitCheckNext

SideInit == SurveyInit /\ GenInit /\ PushInit /\ RefetchInit

(***************************************************************************)
(* The specifications                                                      *)
(***************************************************************************)
Init ==
    /\ CoordInit
    /\ LinkInit
    /\ CmdInit
    /\ SideInit
    /\ vehicleMission = 0

Next == CoordNext

Spec == Init /\ [][Next]_vars

OneLoopSpec == Init /\ [][OneLoopNext]_vars

LinkSpecInit == CoordInit /\ LinkInit /\ CmdInit /\ SideInit

LinkSpecNext == LinkNext

LinkSpec == LinkSpecInit /\ [][LinkSpecNext]_vars

\* The autopilot holds a mission of one item.
CmdSpecInit ==
    CoordInit /\ LinkInit /\ CmdInit /\ SideInit /\ vehicleMission = 1

CmdSpecNext == CmdNext

CmdSpec == CmdSpecInit /\ [][CmdSpecNext]_vars

\* start(), stop() and the loop threads with no survey, every loop thread
\* that has not ended being scheduled again and again.
FairLoopNext ==
    \/ \E t \in Threads : LoopStep(t)
    \/ Start
    \/ StopSignal
    \/ StopJoin
    \/ TimePasses

FairLoopSpec ==
    /\ Init
    /\ [][FairLoopNext]_vars
    /\ \A t \in Threads : WF_vars(LoopStep(t))

\* A connected link: its listener and the uploads of a mission.
RefetchSpecInit == CoordInit /\ LinkInit /\ ConnectedInit /\ SideInit

RefetchSpec == RefetchSpecInit /\ [][RefetchNext]_vars

\* The same, the context that called upload_mission running on until the
\* call returns.
FairUploadSpec == RefetchSpec /\ WF_vars(UploadSteps)

\* The survey service called on its own.
SurveySpec == Init /\ [][SurveyNext]_vars

\* One call of a waypoint generator.
GenSpecInit ==
    /\ CoordInit
    /\ LinkInit
    /\ CmdInit
    /\ SurveyInit
    /\ GenCallInit
    /\ PushInit
    /\ RefetchInit
    /\ vehicleMission = 0

GenSpec == GenSpecInit /\ [][GenNext]_vars

\* The telemetry push thread of a link.
PushSpec == Init /\ [][PushNext]_vars

(***************************************************************************)
(* Claims about the coordination loop                                       *)
(***************************************************************************)
\* Thread t takes the step that ends a tick of its loop.
EndsTick(t) == pc[t] # "sleep" /\ pc'[t] = "sleep"

C3_SurveyInRangeNotFollowed ==
    [][\A t \in Threads :
          (pc[t] = "decide" /\ pc'[t] # "decide" /\ is_surveying[t]
             /\ distance[t] <= MAX_FOLLOW_DISTANCE)
          => /\ pc'[t] = "sleep"
             /\ ~tickSent[t]
             /\ ~tickSent'[t]
             /\ sent' \cap FollowCmds = {}
             /\ ~is_following']_vars

\* C3: a tick that paused following for a survey in range is at its end.
C3_Witness ==
    \E t \in Threads :
        /\ pc[t] = "sleep"
        /\ branch[t] = "survey"
        /\ "following_paused" \in emitted
        /\ survey_mode_detected
        /\ ~is_following

\* C4: while the drone flies a user-initiated survey (from the switch to AUTO
\* until the survey completes or is abandoned), no step of a loop thread
\* sends a follow command.
C4_NoFollowCommandInSurvey ==
    ~(surveyRunning /\ sent \cap FollowCmds # {})

(***************************************************************************)
(* Claims about the vehicle link                                            *)
(***************************************************************************)
\* C5: an upload sends its items one at a time, item i as the (i+1)-th and
\* in the step that received the MISSION_REQUEST for index i; the accepting
\* final ack is taken only once all upN items are sent; and an upload that
\* returns success has sent exactly the items 0..upN-1 in this order and has
\* had that ack.
C5_UploadHandshake ==
    [][/\ (upSent' # upSent /\ upSent' # <<>>)
          => /\ upPc = "request"
             /\ upSent' = Append(upSent, Len(upSent))
             /\ lastReq' = Len(upSent)
       /\ (upAcked' /\ ~upAcked)
          => (upPc = "ack" /\ Len(upSent) = upN)
       /\ (upResult' = "ok")
          => /\ upSent' = [i \in 1..upN' |-> i - 1]
             /\ upAcked']_vars

\* C5: an upload of MaxWp waypoints has returned success.
C5_Witness ==
    /\ upPc = "done"
    /\ upResult = "ok"
    /\ upN = MaxWp
    /\ Len(upSent) = MaxWp

\* C6: once a MISSION_REQUEST for another index than the expected one has
\* arrived, the upload sends no further item and does not succeed.
C6_WrongIndexAborts ==
    [][(upWrong /\ upPc # "done")
          => (upSent' = upSent /\ upResult' # "ok")]_vars

\* C7: when an upload has returned failure, the mission state is what it was
\* at the call, but for what the listener did meanwhile: the autopilot holds
\* the same mission, the waypoint cache and last_waypoint_seq are the same,
\* the visited set has lost nothing and a completion flag that was true is
\* true.
C7_FailedUploadChangesNothing ==
    (upPc = "done" /\ upResult = "fail")
    => /\ vehicleMission = pre.vehicleMission
       /\ mission_waypoints = pre.mission_waypoints
       /\ last_waypoint_seq = pre.last_waypoint_seq
       /\ pre.visited_waypoints \subseteq visited_waypoints
       /\ pre.survey_mission_complete => survey_mission_complete

C9_CurrentIsFirstUnvisited ==
    (mission_waypoints # {} /\ current_waypoint_seq # None
       /\ fetchPc = "idle")
    => current_waypoint_seq =
         FirstUnvisited(mission_waypoints, visited_waypoints)

\* C10: whenever no fetch is under way, every visited waypoint is a key of
\* the mission in the waypoint cache.
C10_VisitedWithinMission ==
    fetchPc = "idle" => visited_waypoints \subseteq mission_waypoints

\* C11, the direction from marking to staying: a waypoint becomes visited
\* only in a step that finds its timer at least WAYPOINT_CONFIRMATION_DELAY
\* old, no position update having come from beyond WAYPOINT_VISIT_THRESHOLD
\* of the waypoint since the timer started.
C11_VisitedOnlyAfterStay ==
    [][\A w \in Indices :
          (w \notin visited_waypoints /\ w \in visited_waypoints')
          => /\ waypoint_visit_candidates[w] >= WAYPOINT_CONFIRMATION_DELAY
             /\ w \notin strayed]_vars

C13_ListenerOnlyReader == ~(ListenerRunning /\ MissionOpReadsWire)

\* C14: no step reads or writes the telemetry snapshot or the
\* mission-progress fields outside `with self._lock`.
C14_AccessUnderLock == touch # "bare"

\* C15: arm sends the arm command only when the custom_mode it last saw in
\* the snapshot, read by itself or confirmed by the set_mode(GUIDED) it
\* called, is GUIDED; it calls set_mode at most once; and when that set_mode
\* returns failure, arm returns failure having sent no arm command.
C15_ArmOnlyInGuided ==
    [][/\ "send_arm" \in out'
          => /\ op = "arm"
             /\ armSaw = "GUIDED"
       /\ (op = "arm" /\ "ret_set_mode_fail" \in out')
          => /\ "ret_arm_fail" \in out'
             /\ "send_arm" \notin out'
             /\ ~armSent'
             /\ op' = "idle"
       /\ switches' <= 1]_vars

\* arm has just sent the arm command after switching to GUIDED itself.
C15_Witness ==
    /\ "send_arm" \in out
    /\ switches = 1
    /\ armSent

\* C17: connect_vehicle starts the heartbeat thread and the listener thread
\* only from the position it reaches after a heartbeat was received and the
\* fetch of the mission waypoints has finished, and no listener thread of
\* the link is running while connect_vehicle is in that fetch.
C17_NoListenerDuringInitialFetch ==
    /\ ({"start_heartbeat", "start_listener"} \cap out # {}
           => "ret_connect" \in out)
    /\ (op = "connect" /\ opPc = "fetch" => ~ListenerRunning)

\* C18: disconnect_vehicle called on an unconnected link, a link just
\* disconnected included, reports not connected and changes nothing; called
\* on a connected link it sets the stop flag of both workers, and it closes
\* the transport and forgets it only after its joins, leaving the link
\* unconnected.
C18_DisconnectIdempotent ==
    [][/\ ("call_disconnect" \in out' /\ vehicle = "none")
          => /\ "say_not_connected" \in out'
             /\ UNCHANGED <<workerVars, lock, last_telemetry, callVars,
                            missionFields>>
       /\ ("call_disconnect" \in out' /\ vehicle # "none")
          => /\ stop_threads'
             /\ "say_not_connected" \notin out'
       /\ "close" \in out'
          => /\ op = "disconnect"
             /\ opPc = "close"
             /\ stop_threads
             /\ vehicle' = "none"
             /\ op' = "idle"]_vars

\* disconnect_vehicle has just been called on a link that an earlier
\* disconnect_vehicle left unconnected, its workers stopped.
C18_Witness ==
    /\ "say_not_connected" \in out
    /\ stop_threads
    /\ vehicle = "none"
    /\ listeners = 0
    /\ heartbeats = 0

(***************************************************************************)
(* Claims about the failures of a tick                                      *)
(***************************************************************************)
\* C16: when the follow sequence returns failure with the fault of its arm
\* step or of its takeoff step, a disarm was sent in that sequence.
C16_DisarmOnArmOrTakeoffFailure ==
    [][\A t \in Threads :
          (/\ pc[t] = "seq"
           /\ pc'[t] # "seq"
           /\ emitted' \cap {"Failed to arm drone.", "Failed to takeoff."} # {})
          => "disarm" \in sent']_vars

\* The coordination flags.
coordFlags == <<is_following, survey_mode_detected, last_survey_mode_state,
                survey_button_enabled, survey_initiated_by_user,
                survey_abandoned>>

\* C19: a tick whose head finds the drone or the rover without a link sends
\* no command and changes no coordination flag, in its head and in the wait
\* that ends it, and the thread goes back to the head of the loop.
C19_NotConnectedTickWaits ==
    [][\A t \in Threads :
          /\ (pc[t] = "top" /\ pc'[t] # "top" /\ branch'[t] = "wait")
             => /\ sent' = {}
                /\ UNCHANGED coordFlags
                /\ pc'[t] = "sleep"
          /\ (pc[t] = "sleep" /\ pc'[t] # "sleep" /\ branch[t] = "wait")
             => /\ sent' = {}
                /\ UNCHANGED coordFlags
                /\ pc'[t] = "top"]_vars

\* A thread that follows the rover waits in a tick without the links.
C19_Witness ==
    \E t \in Threads :
       /\ pc[t] = "sleep"
       /\ branch[t] = "wait"
       /\ is_following

\* C20: a tick whose head finds both links and no position sends no
\* command, changes no coordination flag and broadcasts no event, in its
\* head and in the pause that ends it, and the thread goes back to the head
\* of the loop.
C20_NoPositionTickSkipped ==
    [][\A t \in Threads :
          /\ (pc[t] = "top" /\ pc'[t] # "top" /\ branch'[t] = "skip")
             => /\ sent' = {}
                /\ emitted' = {}
                /\ UNCHANGED coordFlags
                /\ pc'[t] = "sleep"
          /\ (pc[t] = "sleep" /\ pc'[t] # "sleep" /\ branch[t] = "skip")
             => /\ sent' = {}
                /\ emitted' = {}
                /\ UNCHANGED coordFlags
                /\ pc'[t] = "top"]_vars

\* A thread that detected a survey skips a tick without a position.
C20_Witness ==
    \E t \in Threads :
       /\ pc[t] = "sleep"
       /\ branch[t] = "skip"
       /\ survey_mode_detected

(***************************************************************************)
(* Claims about the survey button, the survey edges and start and stop     *)
(***************************************************************************)
\* C21: whenever survey_button_enabled is true, no survey is detected and
\* the drone is following (the distance of the tick that enabled the button
\* was within the proximity threshold).
C21_ButtonOnlyWhileFollowingNoSurvey ==
    survey_button_enabled => (is_following /\ ~survey_mode_detected)

\* C22: a proximity check that is not within the cooldown of the one before,
\* made in a tick that finds the drone following, no survey active and the
\* distance within the proximity threshold, leaves survey_button_enabled
\* true: the button is enabled within one cooldown of the conditions.
C22_ButtonEnabledAtCheck ==
    [][\A t \in Threads :
          (/\ pc[t] = "edges" /\ pc'[t] = "decide"
           /\ proxAge >= PROXIMITY_CHECK_COOLDOWN
           /\ is_following
           /\ ~is_surveying[t]
           /\ distance'[t] >= 0
           /\ distance'[t] <= PROXIMITY_THRESHOLD)
          => survey_button_enabled']_vars

\* C23: a tick emits survey_started exactly when the is_surveying it
\* evaluated is true and that of the tick before was false, and emits
\* survey_completed (with which it saves the finished survey) exactly when
\* its is_surveying is false and that of the tick before was true.
C23_OneEventPerEdge ==
    [][\A t \in Threads :
          (pc[t] = "edges" /\ pc'[t] = "decide")
          => /\ ("survey_started" \in emitted')
                  <=> (is_surveying[t] /\ ~evaluated)
             /\ ("survey_completed" \in emitted')
                  <=> (evaluated /\ ~is_surveying[t])]_vars

\* A step of start().
StartStep == emitted' \cap {"coordination_active", AlreadyActiveLine} # {}

\* A step of stop() up to its join.
StopStep ==
    \/ apiPc = "idle" /\ apiPc' = "joining"
    \/ NotActiveLine \in emitted'

\* The threads, the stop event and the coordination flags.
serviceState == <<pc, stop_event, curThread, is_active, is_following,
                  survey_mode_detected, last_survey_mode_state,
                  survey_button_enabled, survey_initiated_by_user>>

C25_AllClearAfterStop ==
    (stop_event /\ apiPc = "idle" /\ \A t \in Threads : pc[t] = "idle")
    => /\ ~is_active
       /\ ~is_following
       /\ ~survey_mode_detected
       /\ ~survey_button_enabled
       /\ ~survey_initiated_by_user

(***************************************************************************)
(* Claims about the survey service, its generators and the telemetry push  *)
(***************************************************************************)
\* How an execution that polled its mission to an end returns (lines
\* 407-424): True for success, False for abandoned, with survey_abandoned
\* set, and for timeout.
TerminalOutcomes == {"True", "False"}

\* C26: a survey execution that has switched the drone to AUTO and goes on
\* to start the mission ends with one of the outcomes success, abandoned
\* and timeout (which the poll loop would choose in the order completion,
\* rover drift, timeout).
C26_OneTerminalOutcome ==
    [][(svcPc = "x_start" /\ svcPc' = "idle")
          => svcResult' \in TerminalOutcomes]_vars

\* resume_survey runs, or has run, on a snapshot with the drone armed and
\* at or above the altitude threshold.
ResumedAirborne ==
    /\ svcCall = "resume"
    /\ position_data.armed
    /\ position_data.relative_altitude >= ALTITUDE_THRESHOLD

\* C27: with the drone armed and at or above the altitude threshold,
\* resume_survey calls neither arm nor takeoff, and when it ends other than
\* by returning False it has resumed the mission with a set_mode.
C27_AirborneResumesDirectly ==
    ResumedAirborne
    => /\ \A i \in 1..Len(svcCalls) : svcCalls[i] \notin {"arm", "takeoff"}
       /\ (svcPc = "idle" /\ svcResult \notin {"none", "False"})
             => (svcResult = "True" /\ svcCalls = <<"set_mode">>)

\* C28: every waypoint the constrained generator returns is within
\* max_distance of the center, by the distance the service computes, and
\* the list returned is the list of the points computed with the points
\* farther away left out, none of them moved.
C28_EmittedWithinRadius ==
    (genPc = "done" /\ genIn.kind = "constrained")
    => LET Inside(wp) ==
               DistanceScale * FromCenterSq(wp, genIn.pole)
                   <= 1000 * genIn.max_distance * genIn.max_distance
       IN  /\ \A i \in 1..Len(genOut) : Inside(genOut[i])
           /\ genOut = SelectSeq(CandidatePoints(genIn), Inside)

\* C28: the constrained generator has returned some of the points it
\* computed and left others out.
C28_Witness ==
    /\ genPc = "done"
    /\ genIn.kind = "constrained"
    /\ Len(genOut) > 0
    /\ Len(genOut) < Len(CandidatePoints(genIn))

\* C29: for swath width w and pattern width 2r the free generator returns
\* floor(2r / w) + 1 stripes of two endpoints each, the two of a stripe at
\* the same y offset and at the two ends of the pattern length, and every
\* stripe but the first starts at the x offset the one before ended at.
C29_StripesAlternate ==
    (genPc = "done" /\ genIn.kind = "free")
    => LET stripes == (2 * genIn.max_radius) \div genIn.swath_width + 1
       IN  /\ Len(genOut) = 2 * stripes
           /\ \A i \in 1..stripes :
                 /\ genOut[2 * i - 1].y_offset = genOut[2 * i].y_offset
                 /\ genOut[2 * i - 1].x_offset = -genOut[2 * i].x_offset
                 /\ genOut[2 * i].x_offset # 0
                 /\ i < stripes
                       => genOut[2 * i + 1].x_offset = genOut[2 * i].x_offset

\* C29: the free generator has returned three stripes for a pattern width
\* that is not a multiple of the swath width.
C29_Witness ==
    /\ genPc = "done"
    /\ genIn.kind = "free"
    /\ (2 * genIn.max_radius) % genIn.swath_width # 0
    /\ Len(genOut) = 6

\* C30: the push thread calls the callback only with a copy of the snapshot
\* whose heartbeat is less than 10 s old: with a copy that has no heartbeat
\* or an older one it calls nothing.
C30_OnlyRecentForwarded ==
    forwarded => (telemetry # None /\ clock - telemetry < HEARTBEAT_MAX_AGE)

\* C30: the push thread has called the callback with a heartbeat 9 s old.
C30_Witness ==
    /\ forwarded
    /\ clock - telemetry = HEARTBEAT_MAX_AGE - 1

(***************************************************************************)
(* Claims about threads, waits and the mission handshake                   *)
(***************************************************************************)

\* The loop threads that have been started and have not ended.
RunningLoops == {t \in Threads : pc[t] # "idle"}

\* C31: under any sequence of start() and stop() calls, a start() after a
\* stop() whose bounded join timed out included, at most one coordination
\* loop thread is running.
C31_OneLoopThread == Cardinality(RunningLoops) <= 1

\* C32: the loop thread ends only after stop has been signalled, so whenever
\* is_active() reports true a loop thread is running.
C32_ActiveMeansRunning == is_active => RunningLoops # {}

\* C33: once stop() has set the stop signal, every loop thread that is
\* running eventually ends.
C33_StoppedLoopEnds ==
    \A t \in Threads : (stop_event /\ pc[t] # "idle") ~> (pc[t] = "idle")

\* C34: every wait ends with a success or failure result within its
\* timeout; for the lawnmower scan and its monitoring loop: a scan that has
\* ended has returned True or False.
C34_ScanEndsWithResult ==
    (svcCall = "lawnmower" /\ svcPc = "idle") => svcResult \in TerminalOutcomes

\* C35: when connect_vehicle has just failed for want of a heartbeat, the
\* link is not connected: `self.vehicle`, which the calls of the link and
\* the coordination loop's both-connected check test, is not set.
C35_FailedConnectNotConnected == "raise" \in out => ~IsConnected

\* C36: once Vehicle.upload_mission has reset the completion flag, the flag
\* stays false until the vehicle reports the last survey waypoint of the new
\* mission reached: it is false as long as the handshake has not given the
\* autopilot the new mission, a MISSION_ITEM_REACHED taken meanwhile being
\* one of the mission before.
C36_StaleItemReachedIgnored ==
    (upImpl = "vehicle" /\ upPc \in {"request", "ack"})
    => ~survey_mission_complete

\* C37: while the link is connected and not being stopped, its message
\* listener keeps running, whatever another context does to the waypoint
\* cache during a visit check.
C37_ListenerKeepsRunning ==
    (IsConnected /\ ~stop_threads) => ListenerRunning

\* C38: with the vehicle answering every step of the handshake correctly
\* and in time, an upload_mission on a connected link whose listener runs
\* eventually returns success.
C38_AnsweredUploadSucceeds == (upPc = "clear") ~> (upResult = "ok")

\* C39: right after a successful upload_mission no waypoint of the new
\* mission is in the visited set.
C39_UploadResetsVisits ==
    [][(upImpl = "vehicle" /\ upPc # "done" /\ upPc' = "done"
            /\ upResult' = "ok")
          => visited_waypoints' \cap Keys(upN) = {}]_vars

\* C40: at the end of every completed tick of the loop the status flags
\* following and surveying are not both true.
C40_NotFollowingAndSurveying ==
    [][\A t \in Threads :
          EndsTick(t) => ~(is_following' /\ survey_mode_detected')]_vars

====
